---- MODULE Spec2Model ----
(***************************************************************************)
(* The OpenAPI foreign data wrapper (openapi_fdw).                         *)
(*                                                                         *)
(*   spec.rs  the parsed OpenAPI document and the schema resolver          *)
(*            (resolve_ref, resolve_schema, merge_schemas)                 *)
(*   lib.rs   the adapter: extract_data, handle_pagination, ...            *)
(*                                                                         *)
(* Strings the code takes apart (a $ref) are sequences of lexemes: "#",    *)
(* "/" and words that hold neither character.  Option<T> is a sequence of  *)
(* length 0 (None) or 1 (Some).                                            *)
(***************************************************************************)
EXTENDS Integers, Sequences, FiniteSets, TLC

VARIABLES
    phase,        \* which step of the run the state is in
    spec_url,     \* OpenApiFdw.spec_url: Option<String>
    spec,         \* OpenApiFdw.spec: Option<OpenApiSpec>
    components,   \* OpenApiSpec.components: Option<Components>
    schema,       \* the schema handed to resolve_schema
    resolved,     \* resolve_schema(schema)
    resolved2,    \* resolve_schema(resolved)
    resp_json,    \* the parsed body of the response being handled
    response_path,\* OpenApiFdw.response_path: Option<String>
    cursor_path,  \* OpenApiFdw.cursor_path: String
    next_cursor,  \* OpenApiFdw.next_cursor: Option<String>
    next_url,     \* OpenApiFdw.next_url: Option<String>
    extracted,    \* what extract_data returned
    base_url,     \* OpenApiFdw.base_url: String
    endpoint,     \* OpenApiFdw.endpoint: String
    rowid_col,    \* OpenApiFdw.rowid_col: String
    object_path,  \* OpenApiFdw.object_path: Option<String>
    cursor_param, \* OpenApiFdw.cursor_param: String
    page_size,    \* OpenApiFdw.page_size: usize
    page_size_param, \* OpenApiFdw.page_size_param: String
    src_rows,     \* OpenApiFdw.src_rows: Vec<JsonValue>
    src_idx,      \* OpenApiFdw.src_idx: usize
    quals,        \* ctx.get_quals() of the scan in progress
    call,         \* the last callback: its name, requests, response and result
    prev_status,  \* the response status the callback before the last received
    scan_log,     \* what the host saw of the scan: its pages and its rows
    args,         \* the arguments of the function being applied
    ret           \* what the function returned

schemaVars == <<spec_url, spec, components, schema, resolved, resolved2>>

fdwVars == <<resp_json, response_path, cursor_path, next_cursor, next_url, extracted>>

sessionVars ==
    <<base_url, endpoint, rowid_col, object_path, cursor_param, page_size,
      page_size_param, src_rows, src_idx>>

hostVars == <<quals, call, prev_status, scan_log>>

fnVars == <<args, ret>>

vars == <<phase, schemaVars, fdwVars, sessionVars, hostVars, fnVars>>

\* -------------------------------------------------------------- Option
None == << >>

Some(x) == << x >>

Unwrap(o) == o[1]

Range(s) == {s[i] : i \in DOMAIN s}

\* -------------------------------------------------------------- bounds
\* Longest allOf/oneOf/anyOf list of the schemas handed to resolve_schema.
MaxMembers == 2

\* Nested resolve_schema calls after which the call stack is exhausted.
MaxCallDepth == 8

\* Most fields (at any depth) a response body is built with.
MaxFields == 3

\* Most filter predicates of a scan.
MaxQuals == 2

\* The most lexemes of an endpoint path.
MaxPathLen == 4

\* Most paths of an OpenAPI spec.
MaxPaths == 3

\* -------------------------------------------------------------- Schema
NoProperties == [n \in {} |-> None]

\* impl Default for Schema
DefaultSchema ==
    [schema_type |-> None, format |-> None, properties |-> NoProperties,
     items |-> None, reference |-> None, required |-> << >>,
     nullable |-> FALSE, all_of |-> << >>, one_of |-> << >>, any_of |-> << >>]

\* The outcome of a resolution whose recursion never returns.
StackOverflow == [overflow |-> TRUE]

\* Property names, in the order of String's Ord (byte order).
PropOrder == <<"id", "name">>

\* Vec::sort followed by Vec::dedup.
SortDedup(v) == SelectSeq(PropOrder, LAMBDA n : n \in Range(v))

\* "#/components/schemas/<name>"
RefTo(name) == <<"#", "/", "components", "/", "schemas", "/", name>>

\* str::trim_start_matches("#/"): every leading repetition is removed.
RECURSIVE TrimStartMatches(_)
TrimStartMatches(s) ==
    IF Len(s) >= 2 /\ s[1] = "#" /\ s[2] = "/"
    THEN TrimStartMatches(SubSeq(s, 3, Len(s)))
    ELSE s

\* str::split('/'): the parts between the separators, empty parts kept.
RECURSIVE SplitSlash(_, _, _)
SplitSlash(s, i, cur) ==
    IF i > Len(s) THEN << cur >>
    ELSE IF s[i] = "/" THEN << cur >> \o SplitSlash(s, i + 1, << >>)
    ELSE SplitSlash(s, i + 1, Append(cur, s[i]))

\* HashMap::get with a key given as lexemes: the keys are single words.
SchemasGet(schemas, key) ==
    IF Len(key) = 1 /\ key[1] \in DOMAIN schemas THEN Some(schemas[key[1]])
    ELSE None

\* OpenApiSpec::resolve_ref
resolve_ref(reference) ==
    LET parts == SplitSlash(TrimStartMatches(reference), 1, << >>) IN
    IF Len(parts) = 3 /\ parts[1] = <<"components">> /\ parts[2] = <<"schemas">>
    THEN IF components = None THEN None
         ELSE SchemasGet(Unwrap(components).schemas, parts[3])
    ELSE None

\* merge_schemas, the inner loop over resolved.properties: a name already in
\* merged keeps its schema (entry().or_insert).
merge_properties_last_wins(merged, props, make_nullable) ==
    [n \in DOMAIN merged \cup DOMAIN props |->
        IF n \in DOMAIN props
        THEN IF make_nullable THEN [props[n] EXCEPT !.nullable = TRUE] ELSE props[n]
        ELSE merged[n]]

\* The loop that puts the target of a property's $ref in its place.
merge_properties_expand_refs(merged, props, make_nullable) ==
    [n \in DOMAIN merged \cup DOMAIN props |->
        IF n \in DOMAIN merged THEN merged[n]
        ELSE LET target == IF props[n].reference = None THEN None
                           ELSE resolve_ref(Unwrap(props[n].reference))
                 prop == IF target = None THEN props[n] ELSE Unwrap(target)
             IN  IF make_nullable THEN [prop EXCEPT !.nullable = TRUE] ELSE prop]

merge_properties_keep_nullable(merged, props, make_nullable) ==
    [n \in DOMAIN merged \cup DOMAIN props |->
        IF n \in DOMAIN merged THEN merged[n] ELSE props[n]]

merge_properties(merged, props, make_nullable) ==
    [n \in DOMAIN merged \cup DOMAIN props |->
        IF n \in DOMAIN merged THEN merged[n]
        ELSE IF make_nullable THEN [props[n] EXCEPT !.nullable = TRUE]
        ELSE props[n]]

\* merge_schemas, the required names of one member: kept for allOf only.
merge_required(merged, required, make_nullable) ==
    IF ~make_nullable THEN merged \o required ELSE merged

RECURSIVE resolve_schema(_, _)
RECURSIVE merge_loop(_, _, _, _, _)

\* OpenApiSpec::merge_schemas
merge_schemas(schemas, make_nullable, depth) ==
    merge_loop(schemas, 1, [DefaultSchema EXCEPT !.schema_type = Some("object")],
               make_nullable, depth)

\* resolve_schema that returns the $ref's target as it is.
resolve_schema_shallow(s, depth) ==
    IF depth > MaxCallDepth THEN StackOverflow
    ELSE IF s.reference # None /\ resolve_ref(Unwrap(s.reference)) # None
    THEN Unwrap(resolve_ref(Unwrap(s.reference)))
    ELSE IF s.all_of # << >> THEN merge_schemas(s.all_of, FALSE, depth + 1)
    ELSE IF s.one_of # << >> THEN merge_schemas(s.one_of, TRUE, depth + 1)
    ELSE IF s.any_of # << >> THEN merge_schemas(s.any_of, TRUE, depth + 1)
    ELSE s

\* OpenApiSpec::merge_schemas: the loop over the members from the i-th on, then
\* the sort and dedup of the required names.  A member whose resolution
\* never returns keeps the merge from returning.
merge_loop(schemas, i, merged, make_nullable, depth) ==
    IF i > Len(schemas)
    THEN [merged EXCEPT !.required = SortDedup(@)]
    ELSE LET sub == resolve_schema(schemas[i], depth) IN
         IF sub = StackOverflow THEN StackOverflow
         ELSE merge_loop(schemas, i + 1,
                  [merged EXCEPT
                      !.properties = merge_properties(@, sub.properties, make_nullable),
                      !.required = merge_required(@, sub.required, make_nullable)],
                  make_nullable, depth)

\* OpenApiSpec::resolve_schema; depth counts the resolve_schema frames on
\* the call stack.
resolve_schema(s, depth) ==
    IF depth > MaxCallDepth THEN StackOverflow
    ELSE IF s.reference # None /\ resolve_ref(Unwrap(s.reference)) # None
    THEN resolve_schema(Unwrap(resolve_ref(Unwrap(s.reference))), depth + 1)
    ELSE IF s.all_of # << >> THEN merge_schemas(s.all_of, FALSE, depth + 1)
    ELSE IF s.one_of # << >> THEN merge_schemas(s.one_of, TRUE, depth + 1)
    ELSE IF s.any_of # << >> THEN merge_schemas(s.any_of, TRUE, depth + 1)
    ELSE s

\* ------------------------------------------------- the schemas resolved
StringProp == [DefaultSchema EXCEPT !.schema_type = Some("string")]

NullableIntProp ==
    [DefaultSchema EXCEPT !.schema_type = Some("integer"),
                          !.format = Some("int64"), !.nullable = TRUE]

RefProp == [DefaultSchema EXCEPT !.reference = Some(RefTo("A"))]

Object(props, req) ==
    [DefaultSchema EXCEPT !.schema_type = Some("object"),
                          !.properties = props, !.required = req]

Ref(reference) == [DefaultSchema EXCEPT !.reference = Some(reference)]

IdString == Object([n \in {"id"} |-> StringProp], <<"id">>)

IdInt == Object([n \in {"id"} |-> NullableIntProp], << >>)

NameString == Object([n \in {"name"} |-> StringProp], <<"name">>)

IdNameRef ==
    Object([n \in {"id", "name"} |-> IF n = "id" THEN StringProp ELSE RefProp],
           <<"name", "id", "name">>)

\* The members of a composite list: inline objects and references.
Members ==
    {IdString, IdInt, IdNameRef, Ref(RefTo("A")), Ref(RefTo("B")),
     Ref(RefTo("Missing"))}

MemberLists == UNION {[1..n -> Members] : n \in 1..MaxMembers}

\* The schemas handed to resolve_schema.
RootSchemas ==
    {StringProp, NullableIntProp, IdString, IdNameRef}
    \cup {Ref(RefTo(n)) : n \in {"A", "B", "Missing"}}
    \cup {Ref(<<"components", "/", "schemas", "/", "A">>),
          Ref(<<"#", "/", "definitions", "/", "A">>),
          Ref(<<"#", "/">> \o RefTo("A")),
          Ref(RefTo("A") \o <<"/", "properties">>)}
    \cup {[IdNameRef EXCEPT !.reference = Some(RefTo(n))] : n \in {"A", "Missing"}}
    \cup {[DefaultSchema EXCEPT !.all_of = l] : l \in MemberLists}
    \cup {[DefaultSchema EXCEPT !.one_of = l] : l \in MemberLists}
    \cup {[DefaultSchema EXCEPT !.any_of = l] : l \in MemberLists}
    \cup {[DefaultSchema EXCEPT !.one_of = <<IdString>>, !.any_of = <<NameString>>],
          [NameString EXCEPT !.all_of = <<IdString, Ref(RefTo("B"))>>,
                             !.one_of = <<IdInt>>],
          [DefaultSchema EXCEPT !.reference = Some(RefTo("Missing")),
                                !.all_of = <<IdInt, IdString>>],
          [DefaultSchema EXCEPT !.reference = Some(RefTo("B")),
                                !.any_of = <<IdInt, IdString>>]}

\* components.schemas["A"]
SchemasA ==
    {IdString, [IdInt EXCEPT !.nullable = TRUE],
     Ref(RefTo("B")), Ref(RefTo("A")), Ref(RefTo("Missing")),
     [DefaultSchema EXCEPT !.all_of = <<Ref(RefTo("B")), NameString>>],
     [DefaultSchema EXCEPT !.one_of = <<IdString, Ref(RefTo("A"))>>]}

\* components.schemas["B"]
SchemasB ==
    {NameString, Ref(RefTo("A")),
     [DefaultSchema EXCEPT !.any_of = <<IdNameRef>>],
     [DefaultSchema EXCEPT !.all_of = <<Ref(RefTo("A"))>>]}

\* Option<Components>: absent, or schemas with A, or with A and B.
ComponentsChoices ==
    {None}
    \cup {Some([schemas |-> [n \in {"A"} |-> a]]) : a \in SchemasA}
    \cup {Some([schemas |-> [n \in {"A", "B"} |-> IF n = "A" THEN a ELSE b]]) :
              a \in SchemasA, b \in SchemasB}

NotRun == [overflow |-> FALSE]

\* The adapter before any response: OpenApiFdw::default().
FdwIdle ==
    /\ resp_json = [kind |-> "null"]
    /\ response_path = None
    /\ cursor_path = << >>
    /\ next_cursor = None
    /\ next_url = None
    /\ extracted = NotRun

\* No callback made.
NoCall ==
    [callback |-> "none", result |-> "Ok", requests |-> << >>, status |-> "none",
     row |-> << >>]

\* No scan watched.
NoScan ==
    [table |-> << >>, first_url |-> << >>, fetches |-> 0, fetched |-> << >>,
     emitted |-> << >>]

\* The rest of OpenApiFdw::default(), with no callback made and no function
\* applied.
SessionIdle ==
    /\ base_url = << >>
    /\ endpoint = << >>
    /\ rowid_col = ""
    /\ object_path = None
    /\ cursor_param = ""
    /\ page_size = 0
    /\ page_size_param = ""
    /\ src_rows = << >>
    /\ src_idx = 0
    /\ quals = << >>
    /\ call = NoCall
    /\ prev_status = "none"
    /\ scan_log = NoScan
    /\ args = << >>
    /\ ret = << >>

\* ------------------------------------------------------ the resolver run
InitResolve ==
    /\ phase = "schema"
    /\ spec_url = None
    /\ spec = None
    /\ components \in ComponentsChoices
    /\ schema \in RootSchemas
    /\ resolved = NotRun
    /\ resolved2 = NotRun
    /\ FdwIdle
    /\ SessionIdle

\* let resolved = spec.resolve_schema(schema)
Resolve ==
    /\ phase = "schema"
    /\ resolved' = resolve_schema(schema, 0)
    /\ phase' = "resolved"
    /\ UNCHANGED <<spec_url, spec, components, schema, resolved2, fdwVars, sessionVars, hostVars, fnVars>>

\* spec.resolve_schema(&resolved)
ResolveAgain ==
    /\ phase = "resolved"
    /\ resolved # StackOverflow
    /\ resolved2' = resolve_schema(resolved, 0)
    /\ phase' = "resolved_again"
    /\ UNCHANGED <<spec_url, spec, components, schema, resolved, fdwVars, sessionVars, hostVars, fnVars>>

NextResolve == Resolve \/ ResolveAgain

SpecResolve == InitResolve /\ [][NextResolve]_vars

\* ----------------------------------------------- claims on the resolver
\* The schema's own $ref, if it has one, names no schema: resolve_schema
\* goes on to the composite lists.
OwnRefUnresolved(s) ==
    s.reference = None \/ resolve_ref(Unwrap(s.reference)) = None

\* The composite list resolve_schema merges.
AppliedList(s) ==
    IF s.all_of # << >> THEN s.all_of
    ELSE IF s.one_of # << >> THEN s.one_of
    ELSE s.any_of

\* The members of a list, each resolved on its own.
ResolvedMembers(list) == [i \in DOMAIN list |-> resolve_schema(list[i], 0)]

\* The property schema of the earliest member that defines the name.
FirstDefinition(rs, n) ==
    LET i == CHOOSE k \in DOMAIN rs :
                 /\ n \in DOMAIN rs[k].properties
                 /\ \A j \in 1..(k - 1) : n \notin DOMAIN rs[j].properties
    IN rs[i].properties[n]

\* C1: the schema resolve_schema returns carries no $ref and has empty
\* allOf, oneOf and anyOf lists.
C1_ResolvedIsConcrete ==
    (phase # "schema" /\ resolved # StackOverflow) =>
        /\ resolved.reference = None
        /\ resolved.all_of = << >>
        /\ resolved.one_of = << >>
        /\ resolved.any_of = << >>

\* C2: resolve_schema terminates for every schema and every components
\* map, self-referential and mutually referential schemas included.
C2_ResolveTerminates ==
    phase # "schema" => resolved # StackOverflow

\* C3: for allOf the result's properties are the union of the resolved
\* members' properties, a name defined twice keeps the earlier member's
\* definition, and required is the union of the members' required names.
C3_AllOfFirstWinsRequiredUnion ==
    (/\ phase # "schema"
     /\ OwnRefUnresolved(schema)
     /\ schema.all_of # << >>
     /\ resolved # StackOverflow) =>
        LET rs == ResolvedMembers(schema.all_of) IN
        /\ DOMAIN resolved.properties =
               UNION {DOMAIN rs[i].properties : i \in DOMAIN rs}
        /\ \A n \in DOMAIN resolved.properties :
               resolved.properties[n] = FirstDefinition(rs, n)
        /\ Range(resolved.required) =
               UNION {Range(rs[i].required) : i \in DOMAIN rs}

\* allOf = [inline, $ref] sharing the name id: the inline member's nullable
\* integer is kept over the referenced member's string.
C3_Witness ==
    /\ phase = "resolved"
    /\ schema.reference = None
    /\ schema.all_of = <<IdInt, Ref(RefTo("A"))>>
    /\ components = Some([schemas |-> [n \in {"A"} |-> IdString]])
    /\ resolved.properties["id"] = NullableIntProp
    /\ resolved.required = <<"id">>

\* C4: for oneOf/anyOf (allOf empty) the result holds every property of
\* every resolved member of the merged list, every property is nullable and
\* nothing is required.
C4_OneOfAnyOfNullableNoRequired ==
    (/\ phase # "schema"
     /\ OwnRefUnresolved(schema)
     /\ schema.all_of = << >>
     /\ (schema.one_of # << >> \/ schema.any_of # << >>)
     /\ resolved # StackOverflow) =>
        LET rs == ResolvedMembers(AppliedList(schema)) IN
        /\ DOMAIN resolved.properties =
               UNION {DOMAIN rs[i].properties : i \in DOMAIN rs}
        /\ \A n \in DOMAIN resolved.properties :
               resolved.properties[n].nullable = TRUE
        /\ resolved.required = << >>

\* anyOf whose members have non-nullable properties and required names.
C4_Witness ==
    /\ phase = "resolved"
    /\ schema.any_of = <<IdString, IdNameRef>>
    /\ schema.one_of = << >>
    /\ DOMAIN resolved.properties = {"id", "name"}
    /\ resolved.properties["id"] = [StringProp EXCEPT !.nullable = TRUE]
    /\ resolved.required = << >>

\* C5: a $ref that names no entry of components.schemas resolves to an
\* empty object schema: no properties, no required names, no $ref.
C5_MissingRefIsEmptyObject ==
    (/\ phase # "schema"
     /\ schema.reference # None
     /\ resolve_ref(Unwrap(schema.reference)) = None
     /\ resolved # StackOverflow) =>
        /\ resolved.properties = NoProperties
        /\ resolved.required = << >>
        /\ resolved.reference = None

\* C6: a schema with no $ref and no composite list is returned unchanged,
\* and resolving a resolved schema again changes nothing.
C6_ResolveIdempotent ==
    /\ (/\ phase # "schema"
        /\ schema.reference = None
        /\ schema.all_of = << >>
        /\ schema.one_of = << >>
        /\ schema.any_of = << >>) => resolved = schema
    /\ phase = "resolved_again" => resolved2 = resolved

\* A $ref through A to B, resolved twice.
C6_Witness ==
    /\ phase = "resolved_again"
    /\ schema = Ref(RefTo("A"))
    /\ components =
           Some([schemas |-> [n \in {"A", "B"} |->
                                 IF n = "A" THEN Ref(RefTo("B")) ELSE NameString]])
    /\ resolved = NameString
    /\ resolved2 = NameString

\* ================================================================ lib.rs
\* The OpenApiFdw instance, as the methods see it through &self.
Self ==
    [base_url |-> base_url, endpoint |-> endpoint,
     response_path |-> response_path, object_path |-> object_path,
     rowid_col |-> rowid_col, cursor_param |-> cursor_param,
     cursor_path |-> cursor_path, page_size |-> page_size,
     page_size_param |-> page_size_param, next_cursor |-> next_cursor,
     next_url |-> next_url, src_rows |-> src_rows, src_idx |-> src_idx]

\* ---------------------------------------------------- serde_json::Value
JNull == [kind |-> "null"]

JBool(b) == [kind |-> "bool", b |-> b]

JNum(n) == [kind |-> "number", n |-> n]

JStr(s) == [kind |-> "string", s |-> s]

JArr(elems) == [kind |-> "array", elems |-> elems]

JObj(fields) == [kind |-> "object", fields |-> fields]

\* Result<Vec<JsonValue>, FdwError>
Ok(rows) == [ok |-> TRUE, rows |-> rows]

Err(msg) == [ok |-> FALSE, err |-> msg]

\* The JSON Pointer "/t1/t2/...", as lexemes.
RECURSIVE Ptr(_)
Ptr(tokens) ==
    IF tokens = << >> THEN << >>
    ELSE <<"/", Head(tokens)>> \o Ptr(Tail(tokens))

\* serde_json's parse_index: the decimal tokens, without sign or leading zero.
IndexTokens == <<"0", "1", "2", "3">>

ParseIndex(token) ==
    IF Len(token) = 1 /\ \E i \in DOMAIN IndexTokens : IndexTokens[i] = token[1]
    THEN Some((CHOOSE i \in DOMAIN IndexTokens : IndexTokens[i] = token[1]) - 1)
    ELSE None

\* Value::pointer, the fold over the reference tokens: an object is indexed
\* by key (the keys are single words), an array by parsed index.
RECURSIVE PointerWalk(_, _, _)
PointerWalk(v, tokens, i) ==
    IF i > Len(tokens) THEN Some(v)
    ELSE IF v.kind = "object"
    THEN IF Len(tokens[i]) = 1 /\ tokens[i][1] \in DOMAIN v.fields
         THEN PointerWalk(v.fields[tokens[i][1]], tokens, i + 1)
         ELSE None
    ELSE IF v.kind = "array"
    THEN LET ix == ParseIndex(tokens[i]) IN
         IF ix # None /\ Unwrap(ix) < Len(v.elems)
         THEN PointerWalk(v.elems[Unwrap(ix) + 1], tokens, i + 1)
         ELSE None
    ELSE None

\* Value::pointer: "" is the whole value, a pointer that does not start
\* with "/" finds nothing.
Pointer(v, pointer) ==
    IF pointer = << >> THEN Some(v)
    ELSE IF pointer[1] # "/" THEN None
    ELSE PointerWalk(v, Tail(SplitSlash(pointer, 1, << >>)), 1)

\* ------------------------------------------------------- extract_data
DataKeys == <<"data", "results", "items", "records", "entries", "features">>

RECURSIVE probe_data_keys(_, _)
RECURSIVE probe_data_keys_first_present(_, _)

\* The loop that stops at the first key present, whatever its value.
probe_data_keys_first_present(resp, i) ==
    IF i > Len(DataKeys) THEN Ok(<<resp>>)
    ELSE IF DataKeys[i] \in DOMAIN resp.fields
    THEN LET data == resp.fields[DataKeys[i]] IN
         IF data.kind = "array" THEN Ok(data.elems)
         ELSE IF data.kind = "object" THEN Ok(<<data>>)
         ELSE Ok(<<resp>>)
    ELSE probe_data_keys_first_present(resp, i + 1)

\* extract_data, the loop over the common wrapper keys from the i-th on and
\* the single-object fallback after it.
probe_data_keys(resp, i) ==
    IF i > Len(DataKeys) THEN Ok(<<resp>>)
    ELSE IF DataKeys[i] \in DOMAIN resp.fields
    THEN LET data == resp.fields[DataKeys[i]] IN
         IF data.kind = "array" THEN Ok(data.elems)
         ELSE IF data.kind = "object" THEN Ok(<<data>>)
         ELSE probe_data_keys(resp, i + 1)
    ELSE probe_data_keys(resp, i + 1)

\* extract_data, the auto-detection after the response_path rule.
auto_detect(resp) ==
    IF resp.kind = "array" THEN Ok(resp.elems)
    ELSE IF resp.kind = "object" THEN probe_data_keys(resp, 1)
    ELSE Err("Unable to extract data from response")

\* extract_data that auto-detects when the response path finds nothing.
extract_data_fallback(self, resp) ==
    IF self.response_path # None
    THEN LET data == Pointer(resp, Unwrap(self.response_path)) IN
         IF data = None THEN auto_detect(resp)
         ELSE IF Unwrap(data).kind = "array" THEN Ok(Unwrap(data).elems)
         ELSE IF Unwrap(data).kind = "object" THEN Ok(<<Unwrap(data)>>)
         ELSE Err("Response data is not an array or object")
    ELSE auto_detect(resp)

\* OpenApiFdw::extract_data
extract_data(self, resp) ==
    IF self.response_path # None
    THEN LET data == Pointer(resp, Unwrap(self.response_path)) IN
         IF data = None THEN Err("Response path not found in response")
         ELSE IF Unwrap(data).kind = "array" THEN Ok(Unwrap(data).elems)
         ELSE IF Unwrap(data).kind = "object" THEN Ok(<<Unwrap(data)>>)
         ELSE Err("Response data is not an array or object")
    ELSE auto_detect(resp)

\* -------------------------------------------------- handle_pagination
NextUrlPaths ==
    <<Ptr(<<"meta", "pagination", "next">>), Ptr(<<"pagination", "next">>),
      Ptr(<<"links", "next">>), Ptr(<<"next">>), Ptr(<<"_links", "next", "href">>)>>

HasMorePaths ==
    <<Ptr(<<"meta", "pagination", "has_more">>), Ptr(<<"has_more">>),
      Ptr(<<"pagination", "has_more">>)>>

NextCursorPaths ==
    <<Ptr(<<"meta", "pagination", "next_cursor">>), Ptr(<<"pagination", "next_cursor">>),
      Ptr(<<"next_cursor">>), Ptr(<<"cursor">>)>>

\* The first of the paths that points to a non-empty string, as Option<String>.
RECURSIVE first_non_empty_str(_, _, _)
first_non_empty_str(resp, paths, i) ==
    IF i > Len(paths) THEN None
    ELSE LET v == Pointer(resp, paths[i]) IN
         IF v # None /\ Unwrap(v).kind = "string" /\ Unwrap(v).s # ""
         THEN Some(Unwrap(v).s)
         ELSE first_non_empty_str(resp, paths, i + 1)

\* pointer(a).or_else(|| pointer(b)).or_else(|| pointer(c))
RECURSIVE first_present(_, _, _)
first_present(resp, paths, i) ==
    IF i > Len(paths) THEN None
    ELSE IF Pointer(resp, paths[i]) # None THEN Pointer(resp, paths[i])
    ELSE first_present(resp, paths, i + 1)

\* has_more that is true when any of the has_more paths holds true.
has_more_any(resp) ==
    \E i \in DOMAIN HasMorePaths :
        LET v == Pointer(resp, HasMorePaths[i]) IN
        v # None /\ Unwrap(v).kind = "bool" /\ Unwrap(v).b

\* handle_pagination: let has_more = ... .and_then(|v| v.as_bool()).unwrap_or(false)
has_more(resp) ==
    LET v == first_present(resp, HasMorePaths, 1) IN
    v # None /\ Unwrap(v).kind = "bool" /\ Unwrap(v).b

\* handle_pagination with the has_more rule tried before the next links.
handle_pagination_cursor_first(self, resp) ==
    LET configured ==
            IF self.cursor_path # << >>
            THEN first_non_empty_str(resp, <<self.cursor_path>>, 1)
            ELSE None
        url == first_non_empty_str(resp, NextUrlPaths, 1)
        cursor == first_non_empty_str(resp, NextCursorPaths, 1)
    IN  IF configured # None THEN [next_cursor |-> configured, next_url |-> None]
        ELSE IF resp.kind # "object" THEN [next_cursor |-> None, next_url |-> None]
        ELSE IF has_more(resp) /\ cursor # None
        THEN [next_cursor |-> cursor, next_url |-> None]
        ELSE IF url # None THEN [next_cursor |-> None, next_url |-> url]
        ELSE [next_cursor |-> None, next_url |-> None]

\* handle_pagination without the reset of next_cursor and next_url at its
\* start.
handle_pagination_no_reset(self, resp) ==
    LET configured ==
            IF self.cursor_path # << >>
            THEN first_non_empty_str(resp, <<self.cursor_path>>, 1)
            ELSE None
        url == first_non_empty_str(resp, NextUrlPaths, 1)
        cursor == first_non_empty_str(resp, NextCursorPaths, 1)
    IN  IF configured # None
        THEN [next_cursor |-> configured, next_url |-> self.next_url]
        ELSE IF resp.kind # "object"
        THEN [next_cursor |-> self.next_cursor, next_url |-> self.next_url]
        ELSE IF url # None THEN [next_cursor |-> self.next_cursor, next_url |-> url]
        ELSE IF has_more(resp) /\ cursor # None
        THEN [next_cursor |-> cursor, next_url |-> self.next_url]
        ELSE [next_cursor |-> self.next_cursor, next_url |-> self.next_url]

\* OpenApiFdw::handle_pagination: the next_cursor and next_url it leaves,
\* both reset to None first.
handle_pagination(self, resp) ==
    LET configured ==
            IF self.cursor_path # << >>
            THEN first_non_empty_str(resp, <<self.cursor_path>>, 1)
            ELSE None
        url == first_non_empty_str(resp, NextUrlPaths, 1)
        cursor == first_non_empty_str(resp, NextCursorPaths, 1)
    IN  IF configured # None THEN [next_cursor |-> configured, next_url |-> None]
        ELSE IF resp.kind # "object" THEN [next_cursor |-> None, next_url |-> None]
        ELSE IF url # None THEN [next_cursor |-> None, next_url |-> url]
        ELSE IF has_more(resp) /\ cursor # None
        THEN [next_cursor |-> cursor, next_url |-> None]
        ELSE [next_cursor |-> None, next_url |-> None]

\* ------------------------------------------------ the response bodies
\* The reference tokens of a pointer "/t1/t2/...".
TokensOf(pointer) ==
    LET parts == Tail(SplitSlash(pointer, 1, << >>)) IN
    [i \in DOMAIN parts |-> parts[i][1]]

\* The object that holds each value of asg, a set of <<tokens, value>>, at
\* its tokens.
RECURSIVE BuildObject(_)
BuildObject(asg) ==
    LET heads == {Head(a[1]) : a \in asg} IN
    JObj([h \in heads |->
            LET sub == {a \in asg : Head(a[1]) = h} IN
            IF \E a \in sub : Len(a[1]) = 1
            THEN (CHOOSE a \in sub : Len(a[1]) = 1)[2]
            ELSE BuildObject({<<Tail(a[1]), a[2]>> : a \in sub})])

\* The sets of at most n of the assignments, no two at the same tokens.
RECURSIVE FieldSets(_, _)
FieldSets(all, n) ==
    IF n = 0 THEN {{}}
    ELSE LET smaller == FieldSets(all, n - 1) IN
         smaller \cup UNION {{s \cup {a} : a \in {b \in all : \A c \in s : c[1] # b[1]}} :
                                s \in smaller}

Row(src, i) == JObj([f \in {"id", "src"} |-> IF f = "id" THEN JNum(i) ELSE JStr(src)])

\* Bodies for extract_data: each wrapper key absent, an array of two rows,
\* an object or a string; a nested list; an ordinary field.
DataAssignments ==
    UNION {{<<<<DataKeys[i]>>, JArr(<<Row(DataKeys[i], 1), Row(DataKeys[i], 2)>>)>>,
            <<<<DataKeys[i]>>, Row(DataKeys[i], 0)>>,
            <<<<DataKeys[i]>>, JStr("none")>>} : i \in DOMAIN DataKeys}
    \cup {<<<<"result", "list">>, JArr(<<Row("list", 1)>>)>>,
          <<<<"id">>, JNum(7)>>}

DataBodies ==
    {BuildObject(s) : s \in FieldSets(DataAssignments, MaxFields)}
    \cup {JArr(<<Row("body", 1), Row("body", 2)>>), JArr(<< >>), JStr("oops"), JNull}

ResponsePaths ==
    {None, Some(Ptr(<<"data">>)), Some(Ptr(<<"result", "list">>)), Some(<< >>),
     Some(<<"data">>), Some(Ptr(<<"data", "1">>))}

\* Bodies for handle_pagination: each next link absent, a URL or empty; each
\* has_more absent, true, false or a string; each cursor absent, a cursor
\* or empty; a cursor at a path only cursor_path names.
Urls == <<"url1", "url2", "url3", "url4", "url5">>

Cursors == <<"cur1", "cur2", "cur3", "cur4">>

PaginationAssignments ==
    UNION {{<<TokensOf(NextUrlPaths[i]), JStr(Urls[i])>>,
            <<TokensOf(NextUrlPaths[i]), JStr("")>>} : i \in DOMAIN NextUrlPaths}
    \cup UNION {{<<TokensOf(HasMorePaths[i]), JBool(TRUE)>>,
                 <<TokensOf(HasMorePaths[i]), JBool(FALSE)>>,
                 <<TokensOf(HasMorePaths[i]), JStr("true")>>} : i \in DOMAIN HasMorePaths}
    \cup UNION {{<<TokensOf(NextCursorPaths[i]), JStr(Cursors[i])>>,
                 <<TokensOf(NextCursorPaths[i]), JStr("")>>} : i \in DOMAIN NextCursorPaths}
    \cup {<<<<"next">>, JNum(2)>>, <<<<"paging", "after">>, JStr("after0")>>}

PaginationBodies ==
    {BuildObject(s) : s \in FieldSets(PaginationAssignments, MaxFields)}
    \cup {JArr(<<Row("body", 1)>>)}

CursorPaths ==
    {<< >>, Ptr(<<"cursor">>), Ptr(<<"paging", "after">>), Ptr(<<"has_more">>)}

SchemaIdle ==
    /\ spec_url = None
    /\ spec = None
    /\ components = None
    /\ schema = DefaultSchema
    /\ resolved = NotRun
    /\ resolved2 = NotRun

\* ------------------------------------------------- the extract_data run
InitExtract ==
    /\ phase = "response"
    /\ SchemaIdle
    /\ resp_json \in DataBodies
    /\ response_path \in ResponsePaths
    /\ cursor_path = << >>
    /\ next_cursor = None
    /\ next_url = None
    /\ extracted = NotRun
    /\ SessionIdle

\* self.extract_data(&resp_json)
ExtractData ==
    /\ phase = "response"
    /\ extracted' = extract_data(Self, resp_json)
    /\ phase' = "extracted"
    /\ UNCHANGED <<schemaVars, resp_json, response_path, cursor_path, next_cursor, next_url>>
    /\ UNCHANGED <<sessionVars, hostVars, fnVars>>

NextExtract == ExtractData

SpecExtract == InitExtract /\ [][NextExtract]_vars

\* -------------------------------------------- the handle_pagination run
InitPagination ==
    /\ phase = "response"
    /\ SchemaIdle
    /\ resp_json \in PaginationBodies
    /\ response_path = None
    /\ cursor_path \in CursorPaths
    /\ \E previous \in {<<None, None>>, <<Some("previous"), None>>,
                        <<None, Some("previous")>>} :
           next_cursor = previous[1] /\ next_url = previous[2]
    /\ extracted = NotRun
    /\ SessionIdle

\* self.handle_pagination(&resp_json)
HandlePagination ==
    /\ phase = "response"
    /\ next_cursor' = handle_pagination(Self, resp_json).next_cursor
    /\ next_url' = handle_pagination(Self, resp_json).next_url
    /\ phase' = "paginated"
    /\ UNCHANGED <<schemaVars, resp_json, response_path, cursor_path, extracted>>
    /\ UNCHANGED <<sessionVars, hostVars, fnVars>>

NextPagination == HandlePagination

SpecPagination == InitPagination /\ [][NextPagination]_vars

\* ------------------------------------------------ claims on the adapter
Min(S) == CHOOSE x \in S : \A y \in S : x <= y

\* An array's elements, or the one value.
RowsOf(v) == IF v.kind = "array" THEN v.elems ELSE <<v>>

\* The positions in DataKeys of the keys the body has.
PresentKeys(resp) == {i \in DOMAIN DataKeys : DataKeys[i] \in DOMAIN resp.fields}

\* The positions of the keys the body has with an array or object value.
RowKeys(resp) ==
    {i \in PresentKeys(resp) : resp.fields[DataKeys[i]].kind \in {"array", "object"}}

\* C7 as stated: the first key present is the one used, and no key after
\* it is consulted.
C7_FirstPresentKeyUsed ==
    (/\ phase = "extracted"
     /\ response_path = None
     /\ resp_json.kind = "object"
     /\ PresentKeys(resp_json) # {}) =>
        LET first == Min(PresentKeys(resp_json))
            data == resp_json.fields[DataKeys[first]]
        IN  /\ data.kind \in {"array", "object"} => extracted = Ok(RowsOf(data))
            /\ \A i \in RowKeys(resp_json) \ {first} :
                   extracted # Ok(RowsOf(resp_json.fields[DataKeys[i]]))

\* C7, amended: the key used is the first, in the order data, results,
\* items, records, entries, features, whose value is an array (its elements,
\* in order) or an object (one row); a key with any other value is passed
\* over, and with no such key the whole body is the one row.
C7_FirstArrayOrObjectKeyUsed ==
    (/\ phase = "extracted"
     /\ response_path = None
     /\ resp_json.kind = "object") =>
        IF RowKeys(resp_json) = {}
        THEN extracted = Ok(<<resp_json>>)
        ELSE extracted =
                 Ok(RowsOf(resp_json.fields[DataKeys[Min(RowKeys(resp_json))]]))

\* {"data": "none", "results": [r1, r2], "items": {..}}: the rows are those
\* of results.
C7_Witness ==
    /\ phase = "extracted"
    /\ response_path = None
    /\ resp_json.kind = "object"
    /\ DOMAIN resp_json.fields = {"data", "results", "items"}
    /\ resp_json.fields["data"] = JStr("none")
    /\ resp_json.fields["items"].kind = "object"
    /\ extracted = Ok(<<Row("results", 1), Row("results", 2)>>)

\* C8: with a response_path only the pointed value counts: an array is the
\* rows, an object the one row, anything else or nothing is an error, and
\* the auto-detection is never used.
C8_ResponsePathOnly ==
    (phase = "extracted" /\ response_path # None) =>
        LET data == Pointer(resp_json, Unwrap(response_path)) IN
        IF data # None /\ Unwrap(data).kind \in {"array", "object"}
        THEN extracted = Ok(RowsOf(Unwrap(data)))
        ELSE extracted.ok = FALSE

\* The path finds nothing in a body whose data key holds two rows: an error.
C8_Witness ==
    /\ phase = "extracted"
    /\ response_path = Some(Ptr(<<"result", "list">>))
    /\ resp_json.kind = "object"
    /\ "data" \in DOMAIN resp_json.fields
    /\ resp_json.fields["data"].kind = "array"
    /\ "result" \notin DOMAIN resp_json.fields
    /\ extracted = Err("Response path not found in response")

\* The pointer holds a non-empty string.
HoldsString(resp, pointer) ==
    LET v == Pointer(resp, pointer) IN
    v # None /\ Unwrap(v).kind = "string" /\ Unwrap(v).s # ""

StringAt(resp, pointer) == Unwrap(Pointer(resp, pointer)).s

CursorPathHit == cursor_path # << >> /\ HoldsString(resp_json, cursor_path)

\* The positions in NextUrlPaths of the paths that hold a non-empty string.
NextLinkHits == {i \in DOMAIN NextUrlPaths : HoldsString(resp_json, NextUrlPaths[i])}

\* The positions in NextCursorPaths of the paths that hold a non-empty string.
NextCursorHits ==
    {i \in DOMAIN NextCursorPaths : HoldsString(resp_json, NextCursorPaths[i])}

\* The first has_more path present holds the boolean true.
FirstHasMoreIsTrue ==
    LET present == {i \in DOMAIN HasMorePaths :
                        Pointer(resp_json, HasMorePaths[i]) # None}
    IN  /\ present # {}
        /\ Unwrap(Pointer(resp_json, HasMorePaths[Min(present)])).kind = "bool"
        /\ Unwrap(Pointer(resp_json, HasMorePaths[Min(present)])).b

\* C9: a cursor_path hit sets next_cursor and leaves next_url absent; else
\* the first next link that holds a non-empty string sets next_url and
\* leaves next_cursor absent; has_more counts only when neither applies.
C9_PaginationPriority ==
    phase = "paginated" =>
        /\ CursorPathHit =>
               /\ next_cursor = Some(StringAt(resp_json, cursor_path))
               /\ next_url = None
        /\ (~CursorPathHit /\ NextLinkHits # {}) =>
               /\ next_url = Some(StringAt(resp_json, NextUrlPaths[Min(NextLinkHits)]))
               /\ next_cursor = None

\* No cursor_path; the body has a next link, has_more = true and a cursor:
\* the link wins.
C9_Witness ==
    /\ phase = "paginated"
    /\ cursor_path = << >>
    /\ NextLinkHits = {4}
    /\ FirstHasMoreIsTrue
    /\ NextCursorHits # {}
    /\ next_url = Some("url4")
    /\ next_cursor = None

\* C10: with no cursor_path hit and no next link, next_cursor is set exactly
\* when the first has_more present is true and a cursor path holds a
\* non-empty string, to the first such string; next_url is absent.
C10_HasMoreCursor ==
    (phase = "paginated" /\ ~CursorPathHit /\ NextLinkHits = {}) =>
        /\ next_url = None
        /\ IF FirstHasMoreIsTrue /\ NextCursorHits # {}
           THEN next_cursor =
                    Some(StringAt(resp_json, NextCursorPaths[Min(NextCursorHits)]))
           ELSE next_cursor = None

\* {"has_more": true, "next_cursor": "cur3"} after a page that had a cursor.
C10_Witness ==
    /\ phase = "paginated"
    /\ cursor_path = << >>
    /\ resp_json = JObj([k \in {"has_more", "next_cursor"} |->
                            IF k = "has_more" THEN JBool(TRUE) ELSE JStr("cur3")])
    /\ next_cursor = Some("cur3")
    /\ next_url = None

\* ============================================================= strings
\* A String the code builds or takes apart is a sequence of lexemes, the
\* empty String is << >>; a String it only passes on is one word.
Str(word) == IF word = "" THEN << >> ELSE <<word>>

\* The letters of the names whose letters the code looks at.
Spell ==
    "" :> << >>
    @@ "id" :> <<"i", "d">>
    @@ "ID" :> <<"I", "D">>
    @@ "name" :> <<"n", "a", "m", "e">>
    @@ "active" :> <<"a", "c", "t", "i", "v", "e">>
    @@ "price" :> <<"p", "r", "i", "c", "e">>
    @@ "src" :> <<"s", "r", "c">>
    @@ "attrs" :> <<"a", "t", "t", "r", "s">>
    @@ "userName" :> <<"u", "s", "e", "r", "N", "a", "m", "e">>
    @@ "user_name" :> <<"u", "s", "e", "r", "_", "n", "a", "m", "e">>
    @@ "username" :> <<"u", "s", "e", "r", "n", "a", "m", "e">>
    @@ "USERNAME" :> <<"U", "S", "E", "R", "N", "A", "M", "E">>
    @@ "User_Name" :> <<"U", "s", "e", "r", "_", "N", "a", "m", "e">>

\* char::to_lowercase / char::to_uppercase on the letters in use.
LowerOf ==
    "A" :> "a" @@ "D" :> "d" @@ "E" :> "e" @@ "I" :> "i" @@ "M" :> "m"
    @@ "N" :> "n" @@ "R" :> "r" @@ "S" :> "s" @@ "U" :> "u"

UpperOf ==
    "a" :> "A" @@ "d" :> "D" @@ "e" :> "E" @@ "i" :> "I" @@ "m" :> "M"
    @@ "n" :> "N" @@ "r" :> "R" @@ "s" :> "S" @@ "u" :> "U" @@ "c" :> "C"
    @@ "t" :> "T" @@ "v" :> "V" @@ "p" :> "P"

\* A name outside Spell is one word of lower-case letters.
SpellOf(name) == IF name \in DOMAIN Spell THEN Spell[name] ELSE <<name>>

\* The byte of a char.
Code ==
    "-" :> 45 @@ "/" :> 47 @@ "A" :> 65 @@ "D" :> 68 @@ "E" :> 69
    @@ "I" :> 73 @@ "M" :> 77 @@ "N" :> 78 @@ "R" :> 82 @@ "S" :> 83
    @@ "U" :> 85 @@ "_" :> 95 @@ "a" :> 97 @@ "b" :> 98 @@ "c" :> 99
    @@ "d" :> 100 @@ "e" :> 101 @@ "i" :> 105 @@ "m" :> 109 @@ "n" :> 110
    @@ "p" :> 112 @@ "r" :> 114 @@ "s" :> 115 @@ "t" :> 116 @@ "u" :> 117
    @@ "v" :> 118 @@ "{" :> 123 @@ "}" :> 125

\* Ord for str: a < b, byte by byte, a proper prefix first.
RECURSIVE StrLess(_, _)
StrLess(a, b) ==
    IF b = << >> THEN FALSE
    ELSE IF a = << >> THEN TRUE
    ELSE IF Code[Head(a)] # Code[Head(b)] THEN Code[Head(a)] < Code[Head(b)]
    ELSE StrLess(Tail(a), Tail(b))

\* str::to_lowercase
to_lowercase(s) ==
    [i \in DOMAIN s |-> IF s[i] \in DOMAIN LowerOf THEN LowerOf[s[i]] ELSE s[i]]

\* c.to_uppercase().next().unwrap_or(c)
to_uppercase_char(c) == IF c \in DOMAIN UpperOf THEN UpperOf[c] ELSE c

\* to_camel_case, the loop over the chars from the i-th on.
RECURSIVE camel_loop(_, _, _, _)
camel_loop(s, i, result, capitalize_next) ==
    IF i > Len(s) THEN result
    ELSE IF s[i] = "_" THEN camel_loop(s, i + 1, result, TRUE)
    ELSE IF capitalize_next
    THEN camel_loop(s, i + 1, Append(result, to_uppercase_char(s[i])), FALSE)
    ELSE camel_loop(s, i + 1, Append(result, s[i]), FALSE)

\* to_camel_case
to_camel_case(s) == camel_loop(s, 1, << >>, FALSE)

\* The decimal digits of a natural number.
Digits == <<"0", "1", "2", "3", "4", "5", "6", "7", "8", "9">>

RECURSIVE DecimalDigits(_)
DecimalDigits(n) ==
    IF n < 10 THEN <<Digits[n + 1]>>
    ELSE DecimalDigits(n \div 10) \o <<Digits[(n % 10) + 1]>>

\* i32/i64/usize::to_string
IntToString(n) == IF n < 0 THEN <<"-">> \o DecimalDigits(0 - n) ELSE DecimalDigits(n)

\* [String]::join
RECURSIVE Join(_, _)
Join(strs, sep) ==
    IF strs = << >> THEN << >>
    ELSE IF Len(strs) = 1 THEN strs[1]
    ELSE strs[1] \o <<sep>> \o Join(Tail(strs), sep)

\* ------------------------------------------------------------ JSON text
\* A number that is not an integer: the lexemes of its decimal text.
JFloat(x) == [kind |-> "number", x |-> x]

\* JsonValue::String of a String: one word, or the lexemes of a longer text.
JString(s) ==
    IF s = << >> THEN JStr("")
    ELSE IF Len(s) = 1 THEN JStr(s[1])
    ELSE [kind |-> "string", t |-> s]

\* Value::as_str, as a String.
as_str(v) ==
    IF v.kind # "string" THEN None
    ELSE IF "s" \in DOMAIN v THEN Some(Str(v.s))
    ELSE Some(v.t)

\* The elements of a finite set, in some order.
RECURSIVE SetToSeq(_)
SetToSeq(S) ==
    IF S = {} THEN << >>
    ELSE LET x == CHOOSE y \in S : TRUE IN <<x>> \o SetToSeq(S \ {x})

\* JsonValue::to_string: the compact text, the members of an object in the
\* map's iteration order.
RECURSIVE to_string(_)
to_string(v) ==
    IF v.kind = "null" THEN <<"null">>
    ELSE IF v.kind = "bool" THEN (IF v.b THEN <<"true">> ELSE <<"false">>)
    ELSE IF v.kind = "number"
    THEN (IF "n" \in DOMAIN v THEN IntToString(v.n) ELSE v.x)
    ELSE IF v.kind = "string" THEN <<"\"">> \o Unwrap(as_str(v)) \o <<"\"">>
    ELSE IF v.kind = "array"
    THEN <<"[">> \o Join([i \in DOMAIN v.elems |-> to_string(v.elems[i])], ",")
         \o <<"]">>
    ELSE LET keys == SetToSeq(DOMAIN v.fields) IN
         <<"{">>
         \o Join([i \in DOMAIN keys |->
                     <<"\"", keys[i], "\"", ":">> \o to_string(v.fields[keys[i]])], ",")
         \o <<"}">>

\* The parse of a text from the i-th lexeme on: the value and the position
\* after it, or a failure.
Parsed(v, next) == [ok |-> TRUE, value |-> v, next |-> next]

ParseFailed == [ok |-> FALSE]

\* The value of a run of digits.
RECURSIVE DigitsValue(_, _, _, _)
DigitsValue(t, i, j, acc) ==
    IF i > j THEN acc
    ELSE DigitsValue(t, i + 1, j,
             10 * acc + (CHOOSE d \in 0..9 : Digits[d + 1] = t[i]))

IsDigit(c) == \E d \in DOMAIN Digits : Digits[d] = c

\* The last position of the run of digits that starts at i.
RECURSIVE DigitsEnd(_, _)
DigitsEnd(t, i) ==
    IF i + 1 <= Len(t) /\ IsDigit(t[i + 1]) THEN DigitsEnd(t, i + 1) ELSE i

\* A number: -? digits, no leading zero, with an optional fraction.
ParseNumber(t, i) ==
    LET neg == t[i] = "-"
        first == IF neg THEN i + 1 ELSE i
    IN  IF first > Len(t) \/ ~IsDigit(t[first]) THEN ParseFailed
        ELSE LET last == DigitsEnd(t, first) IN
             IF last > first /\ t[first] = "0" THEN ParseFailed
             ELSE IF last + 2 <= Len(t) /\ t[last + 1] = "." /\ IsDigit(t[last + 2])
             THEN LET end == DigitsEnd(t, last + 2) IN
                  Parsed(JFloat(SubSeq(t, i, end)), end + 1)
             ELSE LET n == DigitsValue(t, first, last, 0) IN
                  Parsed(JNum(IF neg THEN 0 - n ELSE n), last + 1)

\* The position of the first quote from i on, or 0.
RECURSIVE QuoteFrom(_, _)
QuoteFrom(t, i) ==
    IF i > Len(t) THEN 0
    ELSE IF t[i] = "\"" THEN i
    ELSE QuoteFrom(t, i + 1)

\* A string: a quote, the text up to the next quote, that quote.
ParseString(t, i) ==
    LET close == QuoteFrom(t, i + 1) IN
    IF close = 0 THEN ParseFailed
    ELSE Parsed(JString(SubSeq(t, i + 1, close - 1)), close + 1)

RECURSIVE ParseValue(_, _)
RECURSIVE ParseElems(_, _, _)
RECURSIVE ParseMembers(_, _, _)

\* The elements of an array after "[" or ",".
ParseElems(t, i, elems) ==
    LET e == ParseValue(t, i) IN
    IF ~e.ok \/ e.next > Len(t) THEN ParseFailed
    ELSE IF t[e.next] = "]" THEN Parsed(JArr(Append(elems, e.value)), e.next + 1)
    ELSE IF t[e.next] = "," THEN ParseElems(t, e.next + 1, Append(elems, e.value))
    ELSE ParseFailed

\* The members of an object after "{" or ",": a repeated key keeps the
\* last value.
ParseMembers(t, i, fields) ==
    LET k == IF i <= Len(t) /\ t[i] = "\"" THEN ParseString(t, i) ELSE ParseFailed IN
    IF ~k.ok \/ k.next > Len(t) \/ t[k.next] # ":" THEN ParseFailed
    ELSE LET m == ParseValue(t, k.next + 1)
             put == [n \in DOMAIN fields \cup {k.value.s} |->
                        IF n = k.value.s THEN m.value ELSE fields[n]]
         IN  IF ~m.ok \/ m.next > Len(t) THEN ParseFailed
             ELSE IF t[m.next] = "}" THEN Parsed(JObj(put), m.next + 1)
             ELSE IF t[m.next] = "," THEN ParseMembers(t, m.next + 1, put)
             ELSE ParseFailed

ParseValue(t, i) ==
    IF i > Len(t) THEN ParseFailed
    ELSE IF t[i] = "null" THEN Parsed(JNull, i + 1)
    ELSE IF t[i] = "true" THEN Parsed(JBool(TRUE), i + 1)
    ELSE IF t[i] = "false" THEN Parsed(JBool(FALSE), i + 1)
    ELSE IF t[i] = "\"" THEN ParseString(t, i)
    ELSE IF t[i] = "-" \/ IsDigit(t[i]) THEN ParseNumber(t, i)
    ELSE IF t[i] = "["
    THEN (IF i + 1 <= Len(t) /\ t[i + 1] = "]" THEN Parsed(JArr(<< >>), i + 2)
          ELSE ParseElems(t, i + 1, << >>))
    ELSE IF t[i] = "{"
    THEN (IF i + 1 <= Len(t) /\ t[i + 1] = "}"
          THEN Parsed(JObj([n \in {} |-> JNull]), i + 2)
          ELSE ParseMembers(t, i + 1, [n \in {} |-> JNull]))
    ELSE ParseFailed

\* serde_json::from_str: Some(value) when the whole text is one value.
from_str(t) ==
    LET p == ParseValue(t, 1) IN
    IF p.ok /\ p.next = Len(t) + 1 THEN Some(p.value) ELSE None

\* ------------------------------------------------------- Cell, Value, Qual
\* Cell::Bool(b)
CellBool(b) == [kind |-> "Bool", b |-> b]

\* Cell::I8(n) .. Cell::I64(n), Cell::Date(n), Cell::Timestamp(n),
\* Cell::Timestamptz(n)
CellInt(kind, n) == [kind |-> kind, n |-> n]

\* Cell::F32(x), Cell::F64(x), Cell::Numeric(x): x is the lexemes of the
\* number's decimal text.
CellFloat(kind, x) == [kind |-> kind, x |-> x]

\* Cell::String(s), Cell::Json(s), Cell::Uuid(s), Cell::Other(s): s is a
\* String, a sequence of lexemes.
CellText(kind, s) == [kind |-> kind, s |-> s]

CellString(s) == CellText("String", s)

CellI32(n) == CellInt("I32", n)

CellI64(n) == CellInt("I64", n)

CellF64(x) == CellFloat("F64", x)

\* Value::Cell and Value::Array
ValueCell(cell) == [tag |-> "Cell", cell |-> cell]

ValueArray(cells) == [tag |-> "Array", cells |-> cells]

Qual(field, operator, value) == [field |-> field, operator |-> operator, value |-> value]

\* ------------------------------------------------------------ build_url
\* build_url, the closure of quals.iter().find(..)
is_id_qual(self, q) ==
    /\ to_lowercase(SpellOf(q.field)) = to_lowercase(SpellOf(self.rowid_col))
    /\ q.operator = "="

\* quals.iter().find(..): the first qual the closure accepts.
id_pushdown(self, qs) ==
    LET hits == {i \in DOMAIN qs : is_id_qual(self, qs[i])} IN
    IF hits = {} THEN None ELSE Some(qs[Min(hits)])

\* build_url's rendering, were a float rendered as well.
qual_value_text_with_floats(cell) ==
    IF cell.kind = "String" THEN Some(cell.s)
    ELSE IF cell.kind \in {"I32", "I64"} THEN Some(IntToString(cell.n))
    ELSE IF cell.kind = "F64" THEN Some(cell.x)
    ELSE IF cell.kind = "Bool" THEN Some(IF cell.b THEN <<"true">> ELSE <<"false">>)
    ELSE None

\* build_url, the match that renders a qual's cell.
qual_value_text(cell) ==
    IF cell.kind = "String" THEN Some(cell.s)
    ELSE IF cell.kind \in {"I32", "I64"} THEN Some(IntToString(cell.n))
    ELSE IF cell.kind = "Bool" THEN Some(IF cell.b THEN <<"true">> ELSE <<"false">>)
    ELSE None

\* build_url, the loop over the quals from the i-th on: the params pushed.
RECURSIVE qual_params(_, _, _)
qual_params(self, qs, i) ==
    IF i > Len(qs) THEN << >>
    ELSE LET qual == qs[i] IN
         IF qual.field = self.rowid_col THEN qual_params(self, qs, i + 1)
         ELSE IF /\ qual.operator = "="
                 /\ qual.value.tag = "Cell"
                 /\ qual_value_text(qual.value.cell) # None
         THEN <<Str(qual.field) \o <<"=">> \o Unwrap(qual_value_text(qual.value.cell))>>
              \o qual_params(self, qs, i + 1)
         ELSE qual_params(self, qs, i + 1)

\* build_url, were the page-size parameter appended to a captured next_url.
build_url_paged_next_url(self, qs) ==
    LET id_qual == id_pushdown(self, qs) IN
    IF /\ id_qual # None
       /\ Unwrap(id_qual).value.tag = "Cell"
       /\ Unwrap(id_qual).value.cell.kind = "String"
    THEN self.base_url \o self.endpoint \o <<"/">> \o Unwrap(id_qual).value.cell.s
    ELSE IF self.next_url # None
    THEN Str(Unwrap(self.next_url))
         \o (IF self.page_size > 0 /\ self.page_size_param # ""
             THEN <<"&">> \o Str(self.page_size_param) \o <<"=">>
                  \o IntToString(self.page_size)
             ELSE << >>)
    ELSE self.base_url \o self.endpoint

\* OpenApiFdw::build_url
build_url(self, qs) ==
    LET id_qual == id_pushdown(self, qs) IN
    IF /\ id_qual # None
       /\ Unwrap(id_qual).value.tag = "Cell"
       /\ Unwrap(id_qual).value.cell.kind = "String"
    THEN self.base_url \o self.endpoint \o <<"/">> \o Unwrap(id_qual).value.cell.s
    ELSE IF self.next_url # None THEN Str(Unwrap(self.next_url))
    ELSE LET params ==
                 (IF self.next_cursor # None
                  THEN <<Str(self.cursor_param) \o <<"=">>
                         \o Str(Unwrap(self.next_cursor))>>
                  ELSE << >>)
                 \o (IF self.page_size > 0 /\ self.page_size_param # ""
                     THEN <<Str(self.page_size_param) \o <<"=">>
                            \o IntToString(self.page_size)>>
                     ELSE << >>)
                 \o qual_params(self, qs, 1)
         IN  IF params # << >>
             THEN self.base_url \o self.endpoint \o <<"?">> \o Join(params, "&")
             ELSE self.base_url \o self.endpoint

\* --------------------------------------------------------- json_to_cell
\* Column: name() and type_oid()
Column(name, type_oid) == [name |-> name, type_oid |-> type_oid]

\* Result<Option<Cell>, FdwError>
CellOk(cell) == [ok |-> TRUE, cell |-> cell]

\* The last instant, in microseconds since the epoch, that the host's time
\* capability renders.
HostMaxMicros == 4000000

\* The host's time capability on the texts in use: RFC 3339 text and
\* microseconds since the epoch; any other text is an error.
RfcMicros ==
    "1970-01-01T00:00:01+00:00" :> 1000000
    @@ "1970-01-01T00:00:02.5+00:00" :> 2500000

\* time::parse_from_rfc3339
parse_from_rfc3339(s) ==
    IF Len(s) = 1 /\ s[1] \in DOMAIN RfcMicros THEN Some(RfcMicros[s[1]]) ELSE None

\* time::epoch_ms_to_rfc3339
epoch_ms_to_rfc3339(v) ==
    IF \E s \in DOMAIN RfcMicros : RfcMicros[s] = v
    THEN Some(<<CHOOSE s \in DOMAIN RfcMicros : RfcMicros[s] = v>>)
    ELSE IF v > HostMaxMicros THEN None
    ELSE Some(<<"T">> \o IntToString(v))

\* v as i8, v as i16: the low bits, as a signed number.
WrapSigned(v, half) == ((v + half) % (2 * half)) - half

\* Value::as_i64, Value::as_f64
as_i64(v) == IF v.kind = "number" /\ "n" \in DOMAIN v THEN Some(v.n) ELSE None

as_f64(v) ==
    IF v.kind # "number" THEN None
    ELSE IF "n" \in DOMAIN v THEN Some(IntToString(v.n) \o <<".", "0">>)
    ELSE Some(v.x)

\* obj.iter().find(..): the first key, in the map's order (the keys' byte
\* order), that equals the column name when both are lower-cased.
find_case_insensitive(obj, tgt_col_name) ==
    LET hits == {k \in DOMAIN obj :
                    to_lowercase(SpellOf(k)) = to_lowercase(SpellOf(tgt_col_name))}
    IN  IF hits = {} THEN None
        ELSE Some(obj[CHOOSE k \in hits :
                          \A j \in hits \ {k} : StrLess(SpellOf(k), SpellOf(j))])

\* json_to_cell, let src = ..: exact name, camelCase form, any case.
find_source(src_row, tgt_col_name) ==
    IF src_row.kind # "object" THEN None
    ELSE LET obj == src_row.fields
             camel == to_camel_case(SpellOf(tgt_col_name))
             camel_keys == {k \in DOMAIN obj : SpellOf(k) = camel}
         IN  IF tgt_col_name \in DOMAIN obj THEN Some(obj[tgt_col_name])
             ELSE IF camel_keys # {} THEN Some(obj[CHOOSE k \in camel_keys : TRUE])
             ELSE find_case_insensitive(obj, tgt_col_name)

\* json_to_cell, the match on tgt_col.type_oid()
convert_cell(src, type_oid) ==
    LET int == as_i64(src)
        float == as_f64(src)
        str == as_str(src)
        ts == IF str # None THEN parse_from_rfc3339(Unwrap(str)) ELSE None
        FloatCell(kind) ==
            IF float = None THEN None ELSE Some(CellFloat(kind, Unwrap(float)))
    IN  IF type_oid = "Bool"
        THEN CellOk(IF src.kind = "bool" THEN Some(CellBool(src.b)) ELSE None)
        ELSE IF type_oid = "I8"
        THEN CellOk(IF int = None THEN None
                    ELSE Some(CellInt("I8", WrapSigned(Unwrap(int), 128))))
        ELSE IF type_oid = "I16"
        THEN CellOk(IF int = None THEN None
                    ELSE Some(CellInt("I16", WrapSigned(Unwrap(int), 32768))))
        ELSE IF type_oid \in {"I32", "I64"}
        THEN CellOk(IF int = None THEN None ELSE Some(CellInt(type_oid, Unwrap(int))))
        ELSE IF type_oid \in {"F32", "F64", "Numeric"} THEN CellOk(FloatCell(type_oid))
        ELSE IF type_oid = "String"
        THEN CellOk(Some(CellString(IF str # None THEN Unwrap(str) ELSE to_string(src))))
        ELSE IF type_oid \in {"Date", "Timestamp", "Timestamptz"}
        THEN IF str = None THEN CellOk(None)
             ELSE IF ts = None THEN Err("parse_from_rfc3339")
             ELSE IF type_oid = "Date"
             THEN CellOk(Some(CellInt("Date", Unwrap(ts) \div 1000000)))
             ELSE CellOk(Some(CellInt(type_oid, Unwrap(ts))))
        ELSE IF type_oid = "Uuid"
        THEN CellOk(IF str = None THEN None ELSE Some(CellString(Unwrap(str))))
        ELSE CellOk(Some(CellText("Json", to_string(src))))

\* OpenApiFdw::json_to_cell
json_to_cell(self, src_row, tgt_col) ==
    IF tgt_col.name = "attrs" THEN CellOk(Some(CellText("Json", to_string(src_row))))
    ELSE LET src == find_source(src_row, tgt_col.name) IN
         IF src = None \/ Unwrap(src).kind = "null" THEN CellOk(None)
         ELSE convert_cell(Unwrap(src), tgt_col.type_oid)

\* ---------------------------------------------------------- row_to_body
\* Row: cols() and cells()
RowOf(cols, cells) == [cols |-> cols, cells |-> cells]

\* Result<String, FdwError>
BodyOk(body) == [ok |-> TRUE, body |-> body]

\* serde_json::Number::from_f64(..).map(JsonValue::Number).unwrap_or(Null):
\* only a finite number is a Number.
number_from_f64(x) == IF x \in {<<"NaN">>, <<"inf">>} THEN JNull ELSE JFloat(x)

\* row_to_body, the match on the cell: Some(value), or None when the
\* host's time capability returns an error.
cell_to_value(cell) ==
    IF cell.kind = "Bool" THEN Some(JBool(cell.b))
    ELSE IF cell.kind \in {"I8", "I16", "I32", "I64"} THEN Some(JNum(cell.n))
    ELSE IF cell.kind \in {"F32", "F64", "Numeric"} THEN Some(number_from_f64(cell.x))
    ELSE IF cell.kind \in {"String", "Uuid", "Other"} THEN Some(JString(cell.s))
    ELSE IF cell.kind \in {"Date", "Timestamp", "Timestamptz"}
    THEN LET text == epoch_ms_to_rfc3339(IF cell.kind = "Date" THEN cell.n * 1000000
                                         ELSE cell.n)
         IN  IF text = None THEN None ELSE Some(JString(Unwrap(text)))
    ELSE IF from_str(cell.s) # None THEN from_str(cell.s)
    ELSE Some(JNull)

RECURSIVE body_loop(_, _, _)
RECURSIVE body_loop_with_attrs(_, _, _)

\* The loop that does not skip the attrs column.
body_loop_with_attrs(row, i, map) ==
    IF i > Len(row.cols) \/ i > Len(row.cells) THEN BodyOk(to_string(JObj(map)))
    ELSE IF row.cells[i] = None THEN body_loop_with_attrs(row, i + 1, map)
    ELSE LET value == cell_to_value(Unwrap(row.cells[i])) IN
         IF value = None THEN Err("epoch_ms_to_rfc3339")
         ELSE body_loop_with_attrs(row, i + 1,
                  [n \in DOMAIN map \cup {row.cols[i]} |->
                      IF n = row.cols[i] THEN Unwrap(value) ELSE map[n]])

\* row_to_body, the loop over the zipped cols and cells from the i-th on,
\* and the serialisation of the map after it.
body_loop(row, i, map) ==
    IF i > Len(row.cols) \/ i > Len(row.cells) THEN BodyOk(to_string(JObj(map)))
    ELSE IF row.cols[i] = "attrs" THEN body_loop(row, i + 1, map)
    ELSE IF row.cells[i] = None THEN body_loop(row, i + 1, map)
    ELSE LET value == cell_to_value(Unwrap(row.cells[i])) IN
         IF value = None THEN Err("epoch_ms_to_rfc3339")
         ELSE body_loop(row, i + 1,
                  [n \in DOMAIN map \cup {row.cols[i]} |->
                      IF n = row.cols[i] THEN Unwrap(value) ELSE map[n]])

\* OpenApiFdw::row_to_body
row_to_body(self, row) == body_loop(row, 1, [n \in {} |-> JNull])

\* ------------------------------------------------------------ the host
\* http::Response, its body parsed: json is None for a body that is not JSON.
Response(status_code, json) == [status_code |-> status_code, json |-> json]

\* The transport's own failure: http::get returns Err.
TransportError == [status_code |-> 0, json |-> None]

\* http::Request
Request(method, url) == [method |-> method, url |-> url]

\* What a method reports of its run: the instance it leaves, whether it
\* returned Ok, the requests it sent and the status it received.
Outcome(self, ok, requests, status) ==
    [self |-> self, ok |-> ok, requests |-> requests, status |-> status]

\* A callback seen from the host: result is "Ok", "Err", "Some" (a row was
\* filled) or "None" (end of data).
Call(callback, result, requests, status, row) ==
    [callback |-> callback, result |-> result, requests |-> requests,
     status |-> status, row |-> row]

\* Options::get, require_or
require_or(opt, default) == IF opt = None THEN default ELSE Unwrap(opt)

\* str::parse::<usize>: Some(n) for a run of digits.
ParseUsize(s) ==
    IF s # << >> /\ \A i \in DOMAIN s : IsDigit(s[i])
    THEN Some(DigitsValue(s, 1, Len(s), 0))
    ELSE None

\* str::trim_end_matches('/')
RECURSIVE TrimEndSlashes(_)
TrimEndSlashes(s) ==
    IF s # << >> /\ s[Len(s)] = "/" THEN TrimEndSlashes(SubSeq(s, 1, Len(s) - 1))
    ELSE s

\* http::error_for_status: Ok for a 2xx status, an error for any other.
error_for_status(resp) == resp.status_code \in 200..299

\* -------------------------------------------------------- make_request
\* make_request, were the buffer emptied before the request is sent.
make_request_clear_first(self, qs, resp) ==
    LET req == Request("GET", build_url(self, qs))
        cleared == [self EXCEPT !.src_rows = << >>, !.src_idx = 0]
    IN
    IF resp = TransportError THEN Outcome(cleared, FALSE, <<req>>, "transport")
    ELSE IF resp.status_code = 404
    THEN Outcome([self EXCEPT !.src_rows = << >>, !.src_idx = 0,
                              !.next_cursor = None, !.next_url = None],
                 TRUE, <<req>>, "404")
    ELSE IF ~error_for_status(resp)
    THEN Outcome(cleared, FALSE, <<req>>, "error_status")
    ELSE IF resp.json = None THEN Outcome(cleared, FALSE, <<req>>, "2xx")
    ELSE LET data == extract_data(self, Unwrap(resp.json))
             next == handle_pagination(self, Unwrap(resp.json))
         IN  IF ~data.ok THEN Outcome(cleared, FALSE, <<req>>, "2xx")
             ELSE Outcome([self EXCEPT !.src_rows = data.rows, !.src_idx = 0,
                                       !.next_cursor = next.next_cursor,
                                       !.next_url = next.next_url],
                          TRUE, <<req>>, "2xx")

\* make_request, were the read cursor left where it is when a page is
\* installed.
make_request_keep_cursor(self, qs, resp) ==
    LET req == Request("GET", build_url(self, qs)) IN
    IF resp = TransportError THEN Outcome(self, FALSE, <<req>>, "transport")
    ELSE IF resp.status_code = 404
    THEN Outcome([self EXCEPT !.src_rows = << >>, !.src_idx = 0,
                              !.next_cursor = None, !.next_url = None],
                 TRUE, <<req>>, "404")
    ELSE IF ~error_for_status(resp)
    THEN Outcome(self, FALSE, <<req>>, "error_status")
    ELSE IF resp.json = None THEN Outcome(self, FALSE, <<req>>, "2xx")
    ELSE LET data == extract_data(self, Unwrap(resp.json))
             next == handle_pagination(self, Unwrap(resp.json))
         IN  IF ~data.ok THEN Outcome(self, FALSE, <<req>>, "2xx")
             ELSE Outcome([self EXCEPT !.src_rows = data.rows,
                                       !.next_cursor = next.next_cursor,
                                       !.next_url = next.next_url],
                          TRUE, <<req>>, "2xx")

\* make_request that leaves the pagination state alone on a 404.
make_request_keep_on_404(self, qs, resp) ==
    LET req == Request("GET", build_url(self, qs)) IN
    IF resp = TransportError THEN Outcome(self, FALSE, <<req>>, "transport")
    ELSE IF resp.status_code = 404
    THEN Outcome([self EXCEPT !.src_rows = << >>, !.src_idx = 0],
                 TRUE, <<req>>, "404")
    ELSE IF ~error_for_status(resp)
    THEN Outcome(self, FALSE, <<req>>, "error_status")
    ELSE IF resp.json = None THEN Outcome(self, FALSE, <<req>>, "2xx")
    ELSE LET data == extract_data(self, Unwrap(resp.json))
             next == handle_pagination(self, Unwrap(resp.json))
         IN  IF ~data.ok THEN Outcome(self, FALSE, <<req>>, "2xx")
             ELSE Outcome([self EXCEPT !.src_rows = data.rows, !.src_idx = 0,
                                       !.next_cursor = next.next_cursor,
                                       !.next_url = next.next_url],
                          TRUE, <<req>>, "2xx")

\* OpenApiFdw::make_request, given the response the server sends.
make_request(self, qs, resp) ==
    LET req == Request("GET", build_url(self, qs)) IN
    IF resp = TransportError THEN Outcome(self, FALSE, <<req>>, "transport")
    ELSE IF resp.status_code = 404
    THEN Outcome([self EXCEPT !.src_rows = << >>, !.src_idx = 0,
                              !.next_cursor = None, !.next_url = None],
                 TRUE, <<req>>, "404")
    ELSE IF ~error_for_status(resp)
    THEN Outcome(self, FALSE, <<req>>, "error_status")
    ELSE IF resp.json = None THEN Outcome(self, FALSE, <<req>>, "2xx")
    ELSE LET data == extract_data(self, Unwrap(resp.json))
             next == handle_pagination(self, Unwrap(resp.json))
         IN  IF ~data.ok THEN Outcome(self, FALSE, <<req>>, "2xx")
             ELSE Outcome([self EXCEPT !.src_rows = data.rows, !.src_idx = 0,
                                       !.next_cursor = next.next_cursor,
                                       !.next_url = next.next_url],
                          TRUE, <<req>>, "2xx")

\* ------------------------------------------------------- the callbacks
\* What a callback leaves: the instance and what the host saw.
Done(self, seen) == [self |-> self, call |-> seen]

\* OpenApiFdw::default()
DefaultFdw ==
    [base_url |-> << >>, endpoint |-> << >>, response_path |-> None,
     object_path |-> None, rowid_col |-> "", cursor_param |-> "",
     cursor_path |-> << >>, page_size |-> 0, page_size_param |-> "",
     next_cursor |-> None, next_url |-> None, src_rows |-> << >>, src_idx |-> 0]

\* Guest::init, with the server options of ctx.
init(opts) ==
    LET size == IF opts.page_size = None THEN None
                ELSE ParseUsize(Unwrap(opts.page_size))
    IN  Done([DefaultFdw EXCEPT
                 !.base_url = TrimEndSlashes(require_or(opts.base_url, << >>)),
                 !.page_size = require_or(size, 100),
                 !.page_size_param = require_or(opts.page_size_param, "limit"),
                 !.cursor_param = require_or(opts.cursor_param, "after")],
             Call("init", "Ok", << >>, "none", << >>))

\* Guest::begin_scan, with the table options and quals of ctx.
begin_scan(self, opts, qs, resp) ==
    IF opts.endpoint = None
    THEN Done(self, Call("begin_scan", "Err", << >>, "none", << >>))
    ELSE LET size == IF opts.page_size = None THEN None
                     ELSE ParseUsize(Unwrap(opts.page_size))
             this == [self EXCEPT
                         !.endpoint = Unwrap(opts.endpoint),
                         !.rowid_col = require_or(opts.rowid_column, "id"),
                         !.response_path = opts.response_path,
                         !.object_path = opts.object_path,
                         !.cursor_path = require_or(opts.cursor_path, << >>),
                         !.cursor_param = require_or(opts.cursor_param, @),
                         !.page_size_param = require_or(opts.page_size_param, @),
                         !.page_size = require_or(size, @),
                         !.next_cursor = None,
                         !.next_url = None]
             fetch == make_request(this, qs, resp)
         IN  Done(fetch.self,
                  Call("begin_scan", IF fetch.ok THEN "Ok" ELSE "Err",
                       fetch.requests, fetch.status, << >>))

\* iter_scan, from "Convert current row" on: the cells pushed to the row,
\* up to the first that json_to_cell fails on.
RECURSIVE push_cells(_, _, _, _, _)
push_cells(self, effective_row, columns, i, row) ==
    IF i > Len(columns) THEN [ok |-> TRUE, row |-> row]
    ELSE LET cell == json_to_cell(self, effective_row, columns[i]) IN
         IF ~cell.ok THEN [ok |-> FALSE, row |-> row]
         ELSE push_cells(self, effective_row, columns, i + 1, Append(row, cell.cell))

\* The conversion, were the read cursor moved past the row after as well.
convert_current_row_skip(self, columns, requests, status) ==
    LET src_row == self.src_rows[self.src_idx + 1]
        pushed == push_cells(self, src_row, columns, 1, << >>)
    IN  IF ~pushed.ok
        THEN Done(self, Call("iter_scan", "Err", requests, status, pushed.row))
        ELSE Done([self EXCEPT !.src_idx = @ + 2],
                  Call("iter_scan", "Some", requests, status, pushed.row))

convert_current_row(self, columns, requests, status) ==
    LET src_row == self.src_rows[self.src_idx + 1]
        pointed == IF self.object_path = None THEN None
                   ELSE Pointer(src_row, Unwrap(self.object_path))
        effective_row == IF pointed = None THEN src_row ELSE Unwrap(pointed)
        pushed == push_cells(self, effective_row, columns, 1, << >>)
    IN  IF ~pushed.ok
        THEN Done(self, Call("iter_scan", "Err", requests, status, pushed.row))
        ELSE Done([self EXCEPT !.src_idx = @ + 1],
                  Call("iter_scan", "Some", requests, status, pushed.row))

\* Guest::iter_scan, with the columns and quals of ctx.
iter_scan(self, columns, qs, resp) ==
    IF self.src_idx >= Len(self.src_rows)
    THEN IF self.next_cursor = None /\ self.next_url = None
         THEN Done(self, Call("iter_scan", "None", << >>, "none", << >>))
         ELSE LET fetch == make_request(self, qs, resp) IN
              IF ~fetch.ok
              THEN Done(fetch.self,
                        Call("iter_scan", "Err", fetch.requests, fetch.status, << >>))
              ELSE IF fetch.self.src_rows = << >>
              THEN Done(fetch.self,
                        Call("iter_scan", "None", fetch.requests, fetch.status, << >>))
              ELSE convert_current_row(fetch.self, columns, fetch.requests,
                                       fetch.status)
    ELSE convert_current_row(self, columns, << >>, "none")

\* re_scan, were a failed fetch tried once more.
re_scan_retry(self, qs, resp) ==
    LET fetch == make_request([self EXCEPT !.next_cursor = None, !.next_url = None],
                              qs, resp)
    IN  Done(fetch.self,
             Call("re_scan", IF fetch.ok THEN "Ok" ELSE "Err",
                  IF fetch.ok THEN fetch.requests ELSE fetch.requests \o fetch.requests,
                  fetch.status, << >>))

\* re_scan, were next_cursor and next_url left as they are.
re_scan_keep_continuation(self, qs, resp) ==
    LET fetch == make_request(self, qs, resp)
    IN  Done(fetch.self,
             Call("re_scan", IF fetch.ok THEN "Ok" ELSE "Err",
                  fetch.requests, fetch.status, << >>))

\* Guest::re_scan
re_scan(self, qs, resp) ==
    LET fetch == make_request([self EXCEPT !.next_cursor = None, !.next_url = None],
                              qs, resp)
    IN  Done(fetch.self,
             Call("re_scan", IF fetch.ok THEN "Ok" ELSE "Err",
                  fetch.requests, fetch.status, << >>))

\* Guest::end_scan
end_scan(self) ==
    Done([self EXCEPT !.src_rows = << >>, !.src_idx = 0],
         Call("end_scan", "Ok", << >>, "none", << >>))

\* The filter predicates of a scan: on the rowid column under either
\* spelling, with a string, an integer, a list or another operator; and on
\* other columns.
QualChoices ==
    {Qual("id", "=", ValueCell(CellString(<<"xyz">>))),
     Qual("ID", "=", ValueCell(CellString(<<"abc">>))),
     Qual("id", "=", ValueCell(CellI64(5))),
     Qual("ID", "=", ValueCell(CellI32(7))),
     Qual("id", "=", ValueArray(<<CellString(<<"a">>), CellString(<<"b">>)>>)),
     Qual("id", "<>", ValueCell(CellString(<<"xyz">>))),
     Qual("name", "=", ValueCell(CellString(<<"bob">>))),
     Qual("active", "=", ValueCell(CellBool(TRUE))),
     Qual("price", "=", ValueCell(CellF64(<<"1", ".", "5">>))),
     Qual("price", ">", ValueCell(CellI64(12)))}

QualLists == UNION {[1..n -> QualChoices] : n \in 0..MaxQuals}

\* No response handled.
NoResponse ==
    /\ resp_json = JNull
    /\ response_path = None
    /\ cursor_path = << >>
    /\ extracted = NotRun

\* --------------------------------------------------- the build_url run
InitBuildUrl ==
    /\ phase = "quals"
    /\ SchemaIdle
    /\ NoResponse
    /\ \E previous \in {<<None, None>>, <<Some("cur1"), None>>, <<None, Some("url1")>>} :
           next_cursor = previous[1] /\ next_url = previous[2]
    /\ base_url = <<"https://api.test">>
    /\ endpoint = <<"/users">>
    /\ rowid_col \in {"id", "ID"}
    /\ object_path = None
    /\ cursor_param = "after"
    /\ page_size \in {0, 100}
    /\ page_size_param \in {"limit", ""}
    /\ src_rows = << >>
    /\ src_idx = 0
    /\ quals \in QualLists
    /\ call = NoCall
    /\ prev_status = "none"
    /\ scan_log = NoScan
    /\ args = << >>
    /\ ret = << >>

\* let url = self.build_url(ctx)
BuildUrl ==
    /\ phase = "quals"
    /\ ret' = build_url(Self, quals)
    /\ phase' = "built"
    /\ UNCHANGED <<schemaVars, fdwVars, sessionVars, hostVars, args>>

NextBuildUrl == BuildUrl

SpecBuildUrl == InitBuildUrl /\ [][NextBuildUrl]_vars

\* ----------------------------------------------------- claims on build_url
\* The qual equates the rowid column, under any spelling, to a string.
IsStringIdQual(q) ==
    /\ to_lowercase(SpellOf(q.field)) = to_lowercase(SpellOf(rowid_col))
    /\ q.operator = "="
    /\ q.value.tag = "Cell"
    /\ q.value.cell.kind = "String"

\* C12: when some filter predicate equates the rowid column (compared
\* case-insensitively) to a string id, build_url returns base_url + endpoint
\* + "/" + id, wherever the predicate stands among the others, whatever the
\* other predicates are and whatever next_cursor, next_url, page_size and
\* page_size_param hold (of several such predicates the first gives the id).
C12_PushdownWhateverPosition ==
    phase = "built" =>
        LET hits == {i \in DOMAIN quals : IsStringIdQual(quals[i])} IN
        hits # {} =>
            ret = base_url \o endpoint \o <<"/">> \o quals[Min(hits)].value.cell.s

\* ========================================================= the session
\* The options of the foreign server.
ServerChoices ==
    {[base_url |-> Some(<<"https://api.test", "/">>), page_size |-> None,
      page_size_param |-> None, cursor_param |-> None]}

\* The options of the foreign table: none set.
NoTableOptions ==
    [endpoint |-> None, rowid_column |-> None, response_path |-> None,
     object_path |-> None, cursor_path |-> None, cursor_param |-> None,
     page_size_param |-> None, page_size |-> None]

\* A table that sets the endpoint only, one that sets every option, and
\* one without the required endpoint.
TableChoices ==
    {[NoTableOptions EXCEPT !.endpoint = Some(<<"/users">>)],
     [NoTableOptions EXCEPT !.endpoint = Some(<<"/items">>),
                            !.rowid_column = Some("ID"),
                            !.response_path = Some(Ptr(<<"data">>)),
                            !.object_path = Some(Ptr(<<"props">>)),
                            !.cursor_path = Some(Ptr(<<"paging", "after">>)),
                            !.cursor_param = Some("cursor"),
                            !.page_size = Some(<<"5", "0">>)],
     NoTableOptions}

\* The filter predicates of the scan: none, an id pushdown, another column.
ScanQuals ==
    {<< >>,
     <<Qual("id", "=", ValueCell(CellString(<<"xyz">>)))>>,
     <<Qual("name", "=", ValueCell(CellString(<<"bob">>)))>>}

ScanColumns == <<Column("id", "I64"), Column("src", "String")>>

\* A body {"data": rows, ...more}
DataPage(rows, more) ==
    BuildObject({<<<<"data">>, JArr(rows)>>} \cup more)

\* The bodies the server answers with: pages with a next link, with has_more
\* and a cursor, with a cursor where cursor_path points, a last page, an
\* empty page that has a next link, one object that has a next link, a
\* string.
ScanBodies ==
    {DataPage(<<Row("p1", 1), Row("p1", 2)>>, {<<<<"next">>, JStr("url2")>>}),
     DataPage(<<Row("p2", 3)>>,
              {<<<<"has_more">>, JBool(TRUE)>>, <<<<"next_cursor">>, JStr("cur3")>>}),
     DataPage(<<Row("p3", 4)>>, {<<<<"paging", "after">>, JStr("after0")>>}),
     DataPage(<<Row("p4", 5)>>, {}),
     DataPage(<< >>, {<<<<"next">>, JStr("url5")>>}),
     BuildObject({<<<<"id">>, JNum(9)>>, <<<<"src">>, JStr("one")>>,
                  <<<<"next">>, JStr("url9")>>}),
     JStr("oops")}

\* What a request meets: a transport failure, 404, 500, 304, or 200 with
\* one of the bodies or with a body that is not JSON.
Responses ==
    {TransportError, Response(404, None), Response(500, Some(JStr("down"))),
     Response(304, None), Response(200, None)}
    \cup {Response(200, Some(b)) : b \in ScanBodies}

\* The instance is replaced by the one a callback leaves.
SetSelf(new) ==
    /\ base_url' = new.base_url
    /\ endpoint' = new.endpoint
    /\ response_path' = new.response_path
    /\ object_path' = new.object_path
    /\ rowid_col' = new.rowid_col
    /\ cursor_param' = new.cursor_param
    /\ cursor_path' = new.cursor_path
    /\ page_size' = new.page_size
    /\ page_size_param' = new.page_size_param
    /\ next_cursor' = new.next_cursor
    /\ next_url' = new.next_url
    /\ src_rows' = new.src_rows
    /\ src_idx' = new.src_idx

\* A callback returns to the host.
Return(done) ==
    /\ SetSelf(done.self)
    /\ call' = done.call
    /\ prev_status' = call.status
    /\ UNCHANGED <<schemaVars, resp_json, extracted, quals, scan_log, fnVars>>

\* Before init: no instance yet; the host holds the context of the scan.
Init ==
    /\ phase = "loaded"
    /\ SchemaIdle
    /\ NoResponse
    /\ next_cursor = None
    /\ next_url = None
    /\ base_url = << >>
    /\ endpoint = << >>
    /\ rowid_col = ""
    /\ object_path = None
    /\ cursor_param = ""
    /\ page_size = 0
    /\ page_size_param = ""
    /\ src_rows = << >>
    /\ src_idx = 0
    /\ quals \in ScanQuals
    /\ call = NoCall
    /\ prev_status = "none"
    /\ scan_log = NoScan
    /\ args \in {[server |-> o, table |-> t, columns |-> ScanColumns] :
                    o \in ServerChoices, t \in TableChoices}
    /\ ret = << >>

\* The host calls init: a new instance replaces the old one.
InitCallback ==
    /\ phase \in {"loaded", "session"}
    /\ Return(init(args.server))
    /\ phase' = "session"

BeginScan ==
    /\ phase = "session"
    /\ \E resp \in Responses : Return(begin_scan(Self, args.table, quals, resp))
    /\ phase' = phase

IterScan ==
    /\ phase = "session"
    /\ \E resp \in Responses : Return(iter_scan(Self, args.columns, quals, resp))
    /\ phase' = phase

ReScan ==
    /\ phase = "session"
    /\ \E resp \in Responses : Return(re_scan(Self, quals, resp))
    /\ phase' = phase

EndScan ==
    /\ phase = "session"
    /\ Return(end_scan(Self))
    /\ phase' = phase

Next == InitCallback \/ BeginScan \/ IterScan \/ ReScan \/ EndScan

Spec == Init /\ [][Next]_vars

\* ------------------------------------------------ claims on the session
\* C11: in every state that init, begin_scan, iter_scan, re_scan and
\* end_scan can reach, whatever the server answers, next_cursor and next_url
\* are never both present.
C11_CursorAndUrlExclusive == ~(next_cursor # None /\ next_url # None)

\* The page fetched from the next link of the page before has has_more and
\* a cursor: the cursor is held and the link is gone.
C11_Witness ==
    /\ call.callback = "iter_scan"
    /\ call.requests = <<Request("GET", <<"url2">>)>>
    /\ call.status = "2xx"
    /\ call.result = "Some"
    /\ next_cursor = Some("cur3")
    /\ next_url = None

\* C13: when the fetch of begin_scan, iter_scan or re_scan receives status
\* 404, the callback does not fail, the buffered page is empty with read
\* cursor 0 and next_cursor and next_url are both absent; the iter_scan that
\* follows returns end-of-data and sends no request.
C13_NotFoundEndsScan ==
    /\ call.status = "404" =>
           /\ call.callback \in {"begin_scan", "iter_scan", "re_scan"}
           /\ call.result \in {"Ok", "None"}
           /\ src_rows = << >>
           /\ src_idx = 0
           /\ next_cursor = None
           /\ next_url = None
    /\ (prev_status = "404" /\ call.callback = "iter_scan") =>
           /\ call.result = "None"
           /\ call.requests = << >>

\* An iter_scan that held a next link fetched it and met 404.
C13_Witness ==
    /\ call.callback = "iter_scan"
    /\ call.status = "404"
    /\ call.requests = <<Request("GET", <<"url2">>)>>
    /\ call.result = "None"
    /\ src_rows = << >>
    /\ next_url = None

\* C14: iter_scan signals end-of-data only in a state where the buffered
\* page is exhausted and next_cursor and next_url are both absent; a
\* continuation that is held is always followed.
C14_EndOnlyWithoutContinuation ==
    (call.callback = "iter_scan" /\ call.result = "None") =>
        /\ src_idx >= Len(src_rows)
        /\ next_cursor = None
        /\ next_url = None

\* ================================================= the functions, applied
\* The instance of the mutation and conversion methods: configured by init
\* and a begin callback, no page held.
InstanceReady ==
    /\ SchemaIdle
    /\ FdwIdle
    /\ base_url = <<"https://api.test">>
    /\ endpoint = <<"/users">>
    /\ rowid_col = "id"
    /\ object_path = None
    /\ cursor_param = "after"
    /\ page_size = 100
    /\ page_size_param = "limit"
    /\ src_rows = << >>
    /\ src_idx = 0
    /\ quals = << >>
    /\ call = NoCall
    /\ prev_status = "none"
    /\ scan_log = NoScan
    /\ ret = << >>

\* The value a source row holds under each key.
KeyValue ==
    "userName" :> JStr("bob") @@ "USERNAME" :> JStr("BOB")
    @@ "user_name" :> JStr("b_b") @@ "username" :> JStr("bb")
    @@ "id" :> JNum(7) @@ "attrs" :> JNull

\* Source rows: the objects of at most two of the keys, and a row that is
\* not an object.
CellRows ==
    {JObj([k \in ks |-> KeyValue[k]]) :
        ks \in {x \in SUBSET DOMAIN KeyValue : Cardinality(x) <= 2}}
    \cup {JStr("bob")}

\* Target columns.
CellColumns ==
    {Column(n, t) : n \in {"userName", "user_name", "username", "id", "attrs"},
                    t \in {"String", "I64", "Json"}}

\* ------------------------------------------------ OpenApiSpec: endpoints
\* A HashMap with the order its iterator yields the keys in.
HashMap(map, order) == [map |-> map, order |-> order]

\* The orders an iterator over the keys of map can take.
Orders(map) ==
    {order \in [1..Cardinality(DOMAIN map) -> DOMAIN map] :
        \A i, j \in DOMAIN order : i # j => order[i] # order[j]}

\* MediaType, Response (of an operation), Operation, PathItem
MediaType(schema_) == [schema |-> schema_]

OpResponse(content) == [content |-> content]

Operation(responses) == [responses |-> responses]

PathItem(get, post, patch, delete) ==
    [get |-> get, post |-> post, patch |-> patch, delete |-> delete]

\* HashMap::get
MapGet(hash_map, key) ==
    IF key \in DOMAIN hash_map.map THEN Some(hash_map.map[key]) ELSE None

\* get_response_schema that goes on to the next status when the response
\* chosen gives no schema.
get_response_schema_next_status(op) ==
    LET SchemaOf(status) ==
            LET response == MapGet(op.responses, status)
                content == Unwrap(response).content
                json == MapGet(content, "application/json")
                media_type == IF response = None THEN None
                              ELSE IF json # None THEN json
                              ELSE IF content.order = << >> THEN None
                              ELSE Some(content.map[content.order[1]])
            IN  IF media_type = None THEN None ELSE Unwrap(media_type).schema
    IN  IF SchemaOf("200") # None THEN SchemaOf("200")
        ELSE IF SchemaOf("201") # None THEN SchemaOf("201")
        ELSE SchemaOf("default")

\* OpenApiSpec::get_response_schema
get_response_schema(op) ==
    LET r200 == MapGet(op.responses, "200")
        r201 == MapGet(op.responses, "201")
        rdefault == MapGet(op.responses, "default")
        response == IF r200 # None THEN r200 ELSE IF r201 # None THEN r201 ELSE rdefault
    IN  IF response = None THEN None
        ELSE LET content == Unwrap(response).content
                 json == MapGet(content, "application/json")
                 media_type == IF json # None THEN json
                               ELSE IF content.order = << >> THEN None
                               ELSE Some(content.map[content.order[1]])
             IN  IF media_type = None THEN None ELSE Unwrap(media_type).schema

\* EndpointInfo { .. }, of a path item that has the GET operation op.
EndpointInfo(path, path_item, op) ==
    [path |-> path,
     response_schema |-> get_response_schema(op),
     supports_post |-> path_item.post # None,
     supports_patch |-> path_item.patch # None,
     supports_delete |-> path_item.delete # None]

\* path.contains('{')
contains_brace(path) == \E i \in DOMAIN path : path[i] = "{"

\* get_endpoints, the loop over the paths from the i-th of the iteration on.
RECURSIVE collect_endpoints(_, _, _)
collect_endpoints(paths, i, endpoints) ==
    IF i > Len(paths.order) THEN endpoints
    ELSE LET path == paths.order[i]
             path_item == paths.map[path]
         IN  IF contains_brace(path) THEN collect_endpoints(paths, i + 1, endpoints)
             ELSE IF path_item.get # None
             THEN collect_endpoints(paths, i + 1,
                      Append(endpoints, EndpointInfo(path, path_item, Unwrap(path_item.get))))
             ELSE collect_endpoints(paths, i + 1, endpoints)

\* endpoints.sort_by(|a, b| a.path.cmp(&b.path)): a stable sort, here by
\* insertion of the i-th endpoint into the sorted ones before it.
RECURSIVE sort_by_path(_, _, _)
sort_by_path(endpoints, i, sorted) ==
    IF i > Len(endpoints) THEN sorted
    ELSE LET e == endpoints[i]
             before == SelectSeq(sorted, LAMBDA x : ~StrLess(e.path, x.path))
             after == SelectSeq(sorted, LAMBDA x : StrLess(e.path, x.path))
         IN  sort_by_path(endpoints, i + 1, before \o <<e>> \o after)

\* get_endpoints that returns the endpoints in the order of the iteration.
get_endpoints_unsorted(paths) == collect_endpoints(paths, 1, << >>)

\* OpenApiSpec::get_endpoints
get_endpoints(paths) == sort_by_path(collect_endpoints(paths, 1, << >>), 1, << >>)

\* The content maps of a response: none, JSON, XML, both in either
\* order, and entries without a schema.
ContentChoices(json_schema, other_schema) ==
    LET json == "application/json" :> MediaType(Some(json_schema))
        xml == "application/xml" :> MediaType(Some(other_schema))
        text == "text/plain" :> MediaType(Some(IdInt))
        bare == "application/json" :> MediaType(None)
    IN  {HashMap(<< >>, << >>), HashMap(json, <<"application/json">>),
         HashMap(bare, <<"application/json">>), HashMap(bare @@ xml, <<"application/xml", "application/json">>)}
        \cup {HashMap(json @@ xml, order) : order \in Orders(json @@ xml)}
        \cup {HashMap(xml @@ text, order) : order \in Orders(xml @@ text)}

\* The responses of an operation: each of 200, 201 and default absent or
\* with one of the content maps, and 404 absent or present.
Statuses == {"200", "201", "default", "404"}

Operations ==
    UNION {{Operation(HashMap(responses, << >>)) :
               responses \in {r \in [statuses -> {OpResponse(c) : c \in ContentChoices(IdString, NameString)}] :
                                 "404" \in statuses =>
                                     r["404"].content.order = <<"application/json">>
                                     /\ r["404"].content.map["application/json"].schema # None}} :
           statuses \in SUBSET Statuses}

\* The paths of a spec, char by char: /A, /a, /a-b, /a/{id}, /b
PathChoices ==
    {<<"/", "A">>, <<"/", "a">>, <<"/", "a", "-", "b">>,
     <<"/", "a", "/", "{", "i", "d", "}">>, <<"/", "b">>}

\* Path items: GET and POST, GET and PATCH, GET and DELETE, all but GET.
PathItems ==
    LET op == Operation(HashMap("200" :> OpResponse(HashMap("application/json" :> MediaType(Some(IdString)),
                                                            <<"application/json">>)),
                                <<"200">>))
    IN  {PathItem(Some(op), Some(op), None, None), PathItem(Some(op), None, Some(op), None),
         PathItem(Some(op), None, None, Some(op)), PathItem(None, Some(op), Some(op), Some(op))}

\* str::trim_start_matches('/')
RECURSIVE TrimStartSlashes(_)
TrimStartSlashes(s) ==
    IF s # << >> /\ s[1] = "/" THEN TrimStartSlashes(Tail(s)) ELSE s

\* str::replace('-', "_")
replace_hyphens(s) == [i \in DOMAIN s |-> IF s[i] = "-" THEN "_" ELSE s[i]]

\* EndpointInfo::table_name; split() always yields a part, so last() is
\* never None.
table_name(path) ==
    LET parts == SplitSlash(TrimStartSlashes(path), 1, << >>)
        name == parts[Len(parts)]
    IN  replace_hyphens(name)

\* Endpoint paths: every text of at most MaxPathLen of these lexemes.
PathLexemes == {"/", "-", "api", "users", "accounts"}

Paths == UNION {[1..n -> PathLexemes] : n \in 0..MaxPathLen}

\* The cells of a row: unset, or set to one of each kind, among them a
\* float that is not finite, a timestamp past what the host renders, and
\* Json cells whose text is and is not JSON.
RowCells ==
    {None, Some(CellBool(TRUE)), Some(CellI64(5)), Some(CellF64(<<"1", ".", "5">>)),
     Some(CellF64(<<"NaN">>)), Some(CellString(<<"bob">>)),
     Some(CellInt("Timestamp", 1000000)), Some(CellInt("Timestamp", HostMaxMicros + 1)),
     Some(CellInt("Date", 1)), Some(CellText("Json", to_string(Row("x", 1)))),
     Some(CellText("Json", <<"{", "oops">>))}

RowColumns == <<"id", "attrs", "name">>

\* The arguments of one call: of json_to_cell, of row_to_body, of
\* table_name, of get_endpoints on a spec of at most MaxPaths paths that
\* the map iterates in any order, of get_response_schema.
InitFunctions ==
    /\ phase = "args"
    /\ InstanceReady
    /\ \/ \E r \in CellRows, c \in CellColumns :
              args = [fn |-> "json_to_cell", src_row |-> r, tgt_col |-> c]
       \/ \E cells \in [DOMAIN RowColumns -> RowCells] :
              args = [fn |-> "row_to_body", row |-> RowOf(RowColumns, cells)]
       \/ \E path \in Paths : args = [fn |-> "table_name", path |-> path]
       \/ \E chosen \in {c \in SUBSET PathChoices : Cardinality(c) <= MaxPaths} :
              \E map \in [chosen -> PathItems] :
                  \E order \in Orders(map) :
                      args = [fn |-> "get_endpoints", paths |-> HashMap(map, order)]
       \/ \E op \in Operations : args = [fn |-> "get_response_schema", op |-> op]

\* let cell = this.json_to_cell(effective_row, &tgt_col)
JsonToCell ==
    /\ phase = "args"
    /\ args.fn = "json_to_cell"
    /\ ret' = json_to_cell(Self, args.src_row, args.tgt_col)
    /\ phase' = "returned"
    /\ UNCHANGED <<schemaVars, fdwVars, sessionVars, hostVars, args>>

\* let body = this.row_to_body(row)
RowToBody ==
    /\ phase = "args"
    /\ args.fn = "row_to_body"
    /\ ret' = row_to_body(Self, args.row)
    /\ phase' = "returned"
    /\ UNCHANGED <<schemaVars, fdwVars, sessionVars, hostVars, args>>

\* endpoint.table_name()
TableName ==
    /\ phase = "args"
    /\ args.fn = "table_name"
    /\ ret' = table_name(args.path)
    /\ phase' = "returned"
    /\ UNCHANGED <<schemaVars, fdwVars, sessionVars, hostVars, args>>

\* spec.get_endpoints()
GetEndpoints ==
    /\ phase = "args"
    /\ args.fn = "get_endpoints"
    /\ ret' = get_endpoints(args.paths)
    /\ phase' = "returned"
    /\ UNCHANGED <<schemaVars, fdwVars, sessionVars, hostVars, args>>

\* let response_schema = self.get_response_schema(op)
GetResponseSchema ==
    /\ phase = "args"
    /\ args.fn = "get_response_schema"
    /\ ret' = get_response_schema(args.op)
    /\ phase' = "returned"
    /\ UNCHANGED <<schemaVars, fdwVars, sessionVars, hostVars, args>>

NextFunctions ==
    JsonToCell \/ RowToBody \/ TableName \/ GetEndpoints \/ GetResponseSchema

SpecFunctions == InitFunctions /\ [][NextFunctions]_vars

\* ---------------------------------------------------- claims on json_to_cell
\* C15: a String column named userName or user_name obtains the value of a
\* source row whose only key is userName, and of one whose only key is
\* USERNAME: the lookup tries the exact name, the camelCase form, and then
\* every key without regard to case.
C15_LookupFindsEitherCase ==
    (/\ phase = "returned"
     /\ args.fn = "json_to_cell"
     /\ args.tgt_col.name \in {"userName", "user_name"}
     /\ args.tgt_col.type_oid = "String"
     /\ args.src_row.kind = "object"
     /\ \E k \in {"userName", "USERNAME"} : DOMAIN args.src_row.fields = {k})
    => LET k == CHOOSE key \in DOMAIN args.src_row.fields : TRUE IN
       ret = CellOk(Some(CellString(Unwrap(as_str(KeyValue[k])))))

\* ----------------------------------------------------- claims on row_to_body
\* The names of the columns of the row that are not attrs and whose cell is
\* set.
SetColumns(row) ==
    {row.cols[i] : i \in {j \in DOMAIN row.cols : row.cols[j] # "attrs"
                                                   /\ row.cells[j] # None}}

\* C16 as stated: for every row, row_to_body produces text that parses as a
\* JSON object whose keys are exactly the row's columns that are not attrs
\* and whose cell is set.
C16_EveryRowGivesBody ==
    (phase = "returned" /\ args.fn = "row_to_body") =>
        /\ ret.ok
        /\ from_str(ret.body) # None
        /\ Unwrap(from_str(ret.body)).kind = "object"
        /\ DOMAIN Unwrap(from_str(ret.body)).fields = SetColumns(args.row)

\* C16, amended: row_to_body returns an error and no text exactly when the
\* host cannot render a set date or timestamp cell of a column other than
\* attrs; otherwise its text parses as a JSON object whose keys are exactly
\* the row's columns that are not attrs and whose cell is set.
C16_BodyKeys ==
    (phase = "returned" /\ args.fn = "row_to_body") =>
        LET row == args.row
            unrendered ==
                {i \in DOMAIN row.cols :
                    /\ row.cols[i] # "attrs"
                    /\ row.cells[i] # None
                    /\ Unwrap(row.cells[i]).kind \in {"Date", "Timestamp", "Timestamptz"}
                    /\ cell_to_value(Unwrap(row.cells[i])) = None}
        IN  IF unrendered # {} THEN ~ret.ok
            ELSE /\ ret.ok
                 /\ from_str(ret.body) # None
                 /\ Unwrap(from_str(ret.body)).kind = "object"
                 /\ DOMAIN Unwrap(from_str(ret.body)).fields = SetColumns(row)

\* A row with a set id, a set attrs and an unset name gave a body.
C16_Witness ==
    /\ phase = "returned"
    /\ args.fn = "row_to_body"
    /\ args.row.cells[1] = Some(CellI64(5))
    /\ args.row.cells[2] = Some(CellString(<<"bob">>))
    /\ args.row.cells[3] = None
    /\ ret.ok
    /\ from_str(ret.body) = Some(JObj([k \in {"id"} |-> JNum(5)]))

\* ------------------------------------------------------ claims on table_name
\* The /-delimited segments of a path that are not empty.
Segments(path) == SelectSeq(SplitSlash(path, 1, << >>), LAMBDA part : part # << >>)

\* C17: for every endpoint path that has a non-empty segment, also one that
\* ends in a slash, table_name returns the last non-empty /-delimited
\* segment with every - replaced by _, and never the empty string.
C17_LastNonEmptySegment ==
    (/\ phase = "returned"
     /\ args.fn = "table_name"
     /\ Segments(args.path) # << >>)
    => LET segments == Segments(args.path) IN
       /\ ret # << >>
       /\ ret = [i \in DOMAIN segments[Len(segments)] |->
                    IF segments[Len(segments)][i] = "-" THEN "_"
                    ELSE segments[Len(segments)][i]]

\* --------------------------------------------------- claims on get_endpoints
\* C18: get_endpoints returns exactly one EndpointInfo for each path that
\* has a GET operation and no {param}, none for any other path, in strictly
\* ascending order of path; the supports_post, supports_patch and
\* supports_delete flags of each say whether the path item has that
\* operation.
C18_EndpointsListed ==
    (phase = "returned" /\ args.fn = "get_endpoints") =>
        LET paths == args.paths.map
            HasParam(p) == \E i, j \in DOMAIN p : i < j /\ p[i] = "{" /\ p[j] = "}"
            listed == {p \in DOMAIN paths : paths[p].get # None /\ ~HasParam(p)}
        IN  /\ Len(ret) = Cardinality(listed)
            /\ {ret[i].path : i \in DOMAIN ret} = listed
            /\ \A i, j \in DOMAIN ret : i < j => StrLess(ret[i].path, ret[j].path)
            /\ \A i \in DOMAIN ret :
                   /\ ret[i].supports_post = (paths[ret[i].path].post # None)
                   /\ ret[i].supports_patch = (paths[ret[i].path].patch # None)
                   /\ ret[i].supports_delete = (paths[ret[i].path].delete # None)

\* Of /b with GET and PATCH, /a/{id} with GET and /A with GET and DELETE,
\* iterated in that order, /A and /b are listed, in this order.
C18_Witness ==
    /\ phase = "returned"
    /\ args.fn = "get_endpoints"
    /\ args.paths.order = <<<<"/", "b">>, <<"/", "a", "/", "{", "i", "d", "}">>, <<"/", "A">>>>
    /\ args.paths.map[<<"/", "a", "/", "{", "i", "d", "}">>].get # None
    /\ Len(ret) = 2
    /\ ret[1].path = <<"/", "A">> /\ ret[1].supports_delete
    /\ ret[2].path = <<"/", "b">> /\ ret[2].supports_patch /\ ~ret[2].supports_post

\* C19: the response schema is that of the response chosen by status alone,
\* 200 if present, else 201, else default; within it the application/json
\* entry is used when present, else the first entry of the content map; when
\* that response has no content entry, or the entry used has no schema, the
\* response schema is absent, whatever the responses of lower priority hold.
C19_ResponseSchemaByStatus ==
    (phase = "returned" /\ args.fn = "get_response_schema") =>
        LET responses == args.op.responses.map
            present == SelectSeq(<<"200", "201", "default">>,
                                 LAMBDA status : status \in DOMAIN responses)
        IN  IF present = << >> THEN ret = None
            ELSE LET content == responses[present[1]].content IN
                 IF "application/json" \in DOMAIN content.map
                 THEN ret = content.map["application/json"].schema
                 ELSE IF DOMAIN content.map = {} THEN ret = None
                 ELSE ret = content.map[content.order[1]].schema

\* 200 has a JSON entry without a schema, 201 has a schema: absent.
C19_Witness ==
    /\ phase = "returned"
    /\ args.fn = "get_response_schema"
    /\ DOMAIN args.op.responses.map = {"200", "201"}
    /\ args.op.responses.map["200"].content.map = "application/json" :> MediaType(None)
    /\ args.op.responses.map["201"].content.map = "application/json" :> MediaType(Some(IdString))
    /\ ret = None

\* ======================================================= the mutations
\* http::Request of a mutation, with its body.
BodyRequest(method, url, body) == [method |-> method, url |-> url, body |-> body]

\* Sending a mutation with 404 let through as on the read path.
send_not_found_ok(resp) ==
    IF resp = TransportError THEN [ok |-> FALSE, status |-> "transport"]
    ELSE IF resp.status_code = 404 THEN [ok |-> TRUE, status |-> "404"]
    ELSE IF ~error_for_status(resp) THEN [ok |-> FALSE, status |-> "error_status"]
    ELSE [ok |-> TRUE, status |-> "2xx"]

\* http::post / patch / delete followed by error_for_status: the status the
\* callback saw, and whether it goes on.
send(resp) ==
    IF resp = TransportError THEN [ok |-> FALSE, status |-> "transport"]
    ELSE IF ~error_for_status(resp)
    THEN [ok |-> FALSE, status |-> IF resp.status_code = 404 THEN "404" ELSE "error_status"]
    ELSE [ok |-> TRUE, status |-> "2xx"]

\* The match on rowid that takes a cell of any kind for an identifier.
rowid_text_any_kind(rowid) ==
    IF rowid.kind \in {"String", "Uuid", "Json", "Other"} THEN Some(rowid.s)
    ELSE IF rowid.kind = "Bool" THEN Some(<<IF rowid.b THEN "true" ELSE "false">>)
    ELSE IF "n" \in DOMAIN rowid THEN Some(IntToString(rowid.n))
    ELSE Some(rowid.x)

\* update and delete, let id = match rowid { .. }: None where the match
\* returns the error.
rowid_text(rowid) ==
    IF rowid.kind = "String" THEN Some(rowid.s)
    ELSE IF rowid.kind \in {"I32", "I64"} THEN Some(IntToString(rowid.n))
    ELSE None

\* Guest::begin_modify, with the table options of ctx.
begin_modify(self, opts) ==
    IF opts.endpoint = None
    THEN Done(self, Call("begin_modify", "Err", << >>, "none", << >>))
    ELSE LET this == [self EXCEPT !.endpoint = Unwrap(opts.endpoint)] IN
         IF opts.rowid_column = None
         THEN Done(this, Call("begin_modify", "Err", << >>, "none", << >>))
         ELSE Done([this EXCEPT !.rowid_col = Unwrap(opts.rowid_column)],
                   Call("begin_modify", "Ok", << >>, "none", << >>))

\* Guest::insert
insert(self, row, resp) ==
    LET url == self.base_url \o self.endpoint
        body == row_to_body(self, row)
        sent == send(resp)
    IN  IF ~body.ok THEN Done(self, Call("insert", "Err", << >>, "none", << >>))
        ELSE Done(self, Call("insert", IF sent.ok THEN "Ok" ELSE "Err",
                             <<BodyRequest("POST", url, body.body)>>, sent.status, << >>))

\* Guest::update
update(self, rowid, row, resp) ==
    LET id == rowid_text(rowid) IN
    IF id = None THEN Done(self, Call("update", "Err", << >>, "none", << >>))
    ELSE LET url == self.base_url \o self.endpoint \o <<"/">> \o Unwrap(id)
             body == row_to_body(self, row)
             sent == send(resp)
         IN  IF ~body.ok THEN Done(self, Call("update", "Err", << >>, "none", << >>))
             ELSE Done(self, Call("update", IF sent.ok THEN "Ok" ELSE "Err",
                                  <<BodyRequest("PATCH", url, body.body)>>,
                                  sent.status, << >>))

\* Guest::delete
delete(self, rowid, resp) ==
    LET id == rowid_text(rowid) IN
    IF id = None THEN Done(self, Call("delete", "Err", << >>, "none", << >>))
    ELSE LET url == self.base_url \o self.endpoint \o <<"/">> \o Unwrap(id)
             sent == send(resp)
         IN  Done(self, Call("delete", IF sent.ok THEN "Ok" ELSE "Err",
                             <<BodyRequest("DELETE", url, << >>)>>, sent.status, << >>))

\* The rowid cells the host passes: a string, integers of both widths and
\* signs, and cells of other kinds.
RowidCells ==
    {CellString(<<"xyz">>), CellI32(5), CellI64(0 - 7), CellI64(120),
     CellBool(TRUE), CellF64(<<"1", ".", "5">>), CellInt("I16", 3),
     CellText("Uuid", <<"u-1">>)}

\* The rows of a mutation: both cells set, one unset, and one with a
\* timestamp the host cannot render.
ModifyRows ==
    {RowOf(<<"id", "name">>, <<Some(CellI64(5)), Some(CellString(<<"bob">>))>>),
     RowOf(<<"id", "name">>, <<None, Some(CellString(<<"bob">>))>>),
     RowOf(<<"id", "seen">>,
           <<Some(CellI64(5)), Some(CellInt("Timestamp", HostMaxMicros + 1))>>)}

\* What a mutation request meets.
ModifyResponses ==
    {TransportError, Response(404, None), Response(500, Some(JStr("down"))),
     Response(304, None), Response(200, Some(JNull)), Response(204, None)}

\* A mutation callback returns to the host, which passed it rowid and row.
ReturnModify(done, passed) ==
    /\ SetSelf(done.self)
    /\ call' = done.call
    /\ prev_status' = call.status
    /\ args' = passed
    /\ UNCHANGED <<schemaVars, resp_json, extracted, quals, scan_log, ret>>

InitModify ==
    /\ phase = "modify"
    /\ InstanceReady
    /\ args = << >>

BeginModify ==
    /\ phase = "modify"
    /\ \E opts \in TableChoices : ReturnModify(begin_modify(Self, opts), args)
    /\ phase' = phase

Insert ==
    /\ phase = "modify"
    /\ \E row \in ModifyRows, resp \in ModifyResponses :
           ReturnModify(insert(Self, row, resp), [row |-> row])
    /\ phase' = phase

Update ==
    /\ phase = "modify"
    /\ \E rowid \in RowidCells, row \in ModifyRows, resp \in ModifyResponses :
           ReturnModify(update(Self, rowid, row, resp), [rowid |-> rowid, row |-> row])
    /\ phase' = phase

Delete ==
    /\ phase = "modify"
    /\ \E rowid \in RowidCells, resp \in ModifyResponses :
           ReturnModify(delete(Self, rowid, resp), [rowid |-> rowid])
    /\ phase' = phase

NextModify == BeginModify \/ Insert \/ Update \/ Delete

SpecModify == InitModify /\ [][NextModify]_vars

\* ------------------------------------------------- claims on the mutations
\* The text of the integers and strings passed as rowid.
RowidShown ==
    CellString(<<"xyz">>) :> <<"xyz">> @@ CellI32(5) :> <<"5">>
    @@ CellI64(0 - 7) :> <<"-", "7">> @@ CellI64(120) :> <<"1", "2", "0">>

\* C20 as stated: update and delete with a rowid cell that is not a
\* string, 32-bit or 64-bit integer return an error, send no request and
\* leave the session state as it was; with a string or integer rowid they
\* send exactly one request, PATCH for update and DELETE for delete, to
\* base_url + endpoint + "/" + the rowid as text.
C20_RowidDecidesRequest ==
    [][call'.callback \in {"update", "delete"} =>
          IF args'.rowid \notin DOMAIN RowidShown
          THEN /\ call'.result = "Err"
               /\ call'.requests = << >>
               /\ UNCHANGED <<fdwVars, sessionVars>>
          ELSE /\ Len(call'.requests) = 1
               /\ call'.requests[1].method =
                      (IF call'.callback = "update" THEN "PATCH" ELSE "DELETE")
               /\ call'.requests[1].url =
                      base_url \o endpoint \o <<"/">> \o RowidShown[args'.rowid]]_vars

\* C20, amended: as stated for delete and for a rowid of another kind; with
\* a string or integer rowid, update sends its one PATCH request unless
\* row_to_body fails on the row, and then it returns that error, sends no
\* request and leaves the session state as it was.
C20_RowidAndBodyDecideRequest ==
    [][call'.callback \in {"update", "delete"} =>
          IF args'.rowid \notin DOMAIN RowidShown
          THEN /\ call'.result = "Err"
               /\ call'.requests = << >>
               /\ UNCHANGED <<fdwVars, sessionVars>>
          ELSE IF call'.callback = "update" /\ ~row_to_body(Self, args'.row).ok
          THEN /\ call'.result = "Err"
               /\ call'.requests = << >>
               /\ UNCHANGED <<fdwVars, sessionVars>>
          ELSE /\ Len(call'.requests) = 1
               /\ call'.requests[1].method =
                      (IF call'.callback = "update" THEN "PATCH" ELSE "DELETE")
               /\ call'.requests[1].url =
                      base_url \o endpoint \o <<"/">> \o RowidShown[args'.rowid]]_vars

\* After begin_modify on the table /items, update with rowid -7 sent one
\* PATCH to /items/-7.
C20_Witness ==
    /\ call.callback = "update"
    /\ args.rowid = CellI64(0 - 7)
    /\ call.result = "Ok"
    /\ call.requests = <<BodyRequest("PATCH", <<"https://api.test", "/items", "/", "-", "7">>,
                                     to_string(JObj("id" :> JNum(5) @@ "name" :> JStr("bob"))))>>

\* ===================================================== the schema import
\* OpenApiSpec::from_json, as far as openapi, info and servers go: the
\* document must be an object with a string openapi, an info that has a
\* string title and, if it has servers, an array of objects with a string
\* url.
from_json(json) ==
    LET IsString(v) == v.kind = "string"
        Has(obj, key) == obj.kind = "object" /\ key \in DOMAIN obj.fields
        servers == IF Has(json, "servers") THEN json.fields["servers"] ELSE JArr(<< >>)
    IN  IF /\ Has(json, "openapi") /\ IsString(json.fields["openapi"])
           /\ Has(json, "info")
           /\ Has(json.fields["info"], "title")
           /\ IsString(json.fields["info"].fields["title"])
           /\ servers.kind = "array"
           /\ \A i \in DOMAIN servers.elems :
                  Has(servers.elems[i], "url") /\ IsString(servers.elems[i].fields["url"])
        THEN Some([servers |->
                      [i \in DOMAIN servers.elems |->
                          Unwrap(as_str(servers.elems[i].fields["url"]))]])
        ELSE None

\* What fetch_spec and import_foreign_schema leave: the instance, its spec
\* and what the host saw.
Imported(self, spec_, ok, requests, status) ==
    [self |-> self, spec |-> spec_, ok |-> ok, requests |-> requests, status |-> status]

\* OpenApiFdw::fetch_spec
fetch_spec(self, url, resp) ==
    IF url = None THEN Imported(self, None, TRUE, << >>, "none")
    ELSE LET req == Request("GET", Unwrap(url)) IN
         IF resp = TransportError THEN Imported(self, None, FALSE, <<req>>, "transport")
         ELSE IF ~error_for_status(resp)
         THEN Imported(self, None, FALSE, <<req>>,
                       IF resp.status_code = 404 THEN "404" ELSE "error_status")
         ELSE IF resp.json = None THEN Imported(self, None, FALSE, <<req>>, "2xx")
         ELSE LET parsed == from_json(Unwrap(resp.json)) IN
              IF parsed = None THEN Imported(self, None, FALSE, <<req>>, "2xx")
              ELSE Imported(
                       IF self.base_url = << >> /\ Unwrap(parsed).servers # << >>
                       THEN [self EXCEPT !.base_url =
                                TrimEndSlashes(Unwrap(parsed).servers[1])]
                       ELSE self,
                       parsed, TRUE, <<req>>, "2xx")

\* Guest::import_foreign_schema, up to the call of generate_all_tables.
import_foreign_schema(self, url, held, resp) ==
    LET fetched == IF held = None THEN fetch_spec(self, url, resp)
                   ELSE Imported(self, held, TRUE, << >>, "none")
    IN  [self |-> fetched.self,
         spec |-> fetched.spec,
         call |-> Call("import_foreign_schema",
                       IF fetched.ok /\ fetched.spec # None THEN "Ok" ELSE "Err",
                       fetched.requests, fetched.status, << >>)]

\* The documents the spec URL answers with: one with a server, one
\* without, one without info, a string.
SpecDocuments ==
    {JObj([k \in {"openapi", "info", "servers"} |->
             IF k = "openapi" THEN JStr("3.0.0")
             ELSE IF k = "info" THEN JObj([t \in {"title"} |-> JStr("api")])
             ELSE JArr(<<JObj([u \in {"url"} |->
                                 JString(<<"https://spec.test", "/">>)])>>)]),
     JObj([k \in {"openapi", "info"} |->
             IF k = "openapi" THEN JStr("3.0.0")
             ELSE JObj([t \in {"title"} |-> JStr("api")])]),
     JObj([k \in {"openapi"} |-> JStr("3.0.0")]),
     JStr("oops")}

SpecResponses ==
    {TransportError, Response(404, None), Response(500, Some(JStr("down"))),
     Response(200, None)}
    \cup {Response(200, Some(d)) : d \in SpecDocuments}

\* The instance init leaves, with or without spec_url and base_url among
\* the server options.
InitImport ==
    /\ phase = "import"
    /\ spec_url \in {None, Some(<<"https://spec.test", "/openapi.json">>)}
    /\ spec = None
    /\ components = None
    /\ schema = DefaultSchema
    /\ resolved = NotRun
    /\ resolved2 = NotRun
    /\ FdwIdle
    /\ base_url \in {<< >>, <<"https://api.test">>}
    /\ endpoint = << >>
    /\ rowid_col = ""
    /\ object_path = None
    /\ cursor_param = "after"
    /\ page_size = 100
    /\ page_size_param = "limit"
    /\ src_rows = << >>
    /\ src_idx = 0
    /\ quals = << >>
    /\ call = NoCall
    /\ prev_status = "none"
    /\ scan_log = NoScan
    /\ args = << >>
    /\ ret = << >>

ImportForeignSchema ==
    /\ phase = "import"
    /\ \E resp \in SpecResponses :
       \E done \in {import_foreign_schema(Self, spec_url, spec, resp)} :
           /\ SetSelf(done.self)
           /\ spec' = done.spec
           /\ call' = done.call
           /\ prev_status' = call.status
    /\ phase' = phase
    /\ UNCHANGED <<spec_url, components, schema, resolved, resolved2, resp_json,
                   extracted, quals, scan_log, fnVars>>

\* ============================================ every callback of a session
\* A session that scans or a session that modifies.
InitCallbacks == Init \/ InitModify \/ InitImport

NextCallbacks == Next \/ NextModify \/ ImportForeignSchema

SpecCallbacks == InitCallbacks /\ [][NextCallbacks]_vars

\* C21: a response status outside 2xx makes the callback that sent the
\* request return an error, except 404 on a read fetch: 404 answering
\* insert, update or delete is an error, and any other status outside 2xx
\* answering a read fetch is an error that hands no row to the host.
C21_NonSuccessIsError ==
    /\ call.status = "error_status" =>
           /\ call.result = "Err"
           /\ call.row = << >>
    /\ (call.status = "404" /\ call.callback \in {"insert", "update", "delete"}) =>
           call.result = "Err"
    /\ (call.status = "404" /\ call.callback \in {"begin_scan", "iter_scan", "re_scan"}) =>
           call.result \in {"Ok", "None"}
    /\ call.result \in {"Ok", "Some", "None"} => call.status \in {"none", "2xx", "404"}

\* delete was answered 404 and failed, after a request was sent.
C21_Witness ==
    /\ call.callback = "delete"
    /\ call.status = "404"
    /\ call.result = "Err"
    /\ Len(call.requests) = 1

\* ------------------------------------- more claims on the resolver
\* A schema, the members of its composite lists and the members of these.
RECURSIVE Nodes(_, _)
Nodes(s, levels) ==
    IF levels = 0 THEN {s}
    ELSE {s} \cup UNION {Nodes(m, levels - 1) :
                            m \in Range(s.all_of) \cup Range(s.one_of) \cup Range(s.any_of)}

\* The property schemas written under the name n in the schema resolved,
\* in the schemas of the components, or in a member of either.
WrittenProperties(n) ==
    LET roots == {schema} \cup (IF components = None THEN {}
                                ELSE Range(Unwrap(components).schemas))
        nodes == UNION {Nodes(r, 2) : r \in roots}
    IN  {node.properties[n] : node \in {x \in nodes : n \in DOMAIN x.properties}}

\* C22: every property schema of the result of resolve_schema is the
\* property schema as written in the member or reference target it comes
\* from, but for the nullable flag that oneOf/anyOf force: a property that
\* is a $ref is still that $ref, not its target.
C22_PropertiesNotExpanded ==
    (phase # "schema" /\ resolved # StackOverflow) =>
        \A n \in DOMAIN resolved.properties :
            \E written \in WrittenProperties(n) :
                \/ resolved.properties[n] = written
                \/ resolved.properties[n] = [written EXCEPT !.nullable = TRUE]

\* allOf with a member whose property name is a $ref to A, which the
\* components define: the property of the result is that $ref.
C22_Witness ==
    /\ phase = "resolved"
    /\ schema.reference = None
    /\ schema.all_of = <<IdNameRef>>
    /\ components = Some([schemas |-> [n \in {"A"} |-> IdString]])
    /\ resolved.properties["name"] = RefProp
    /\ resolved.properties["name"].reference = Some(RefTo("A"))

\* C23: resolve_ref finds a schema only for a reference of the exact form
\* #/components/schemas/<name> with <name> a key of components.schemas, and
\* then that schema; for every other reference it finds nothing, and
\* resolve_schema returns a schema that is only such a $ref as it is.
C23_ExactFormOnly ==
    (phase # "schema" /\ schema.reference # None) =>
        LET reference == Unwrap(schema.reference)
            schemas == IF components = None THEN NoProperties
                       ELSE Unwrap(components).schemas
            named == {n \in DOMAIN schemas : reference = RefTo(n)}
        IN  IF named # {}
            THEN resolve_ref(reference) = Some(schemas[CHOOSE n \in named : TRUE])
            ELSE /\ resolve_ref(reference) = None
                 /\ schema = Ref(reference) => resolved = schema

\* ------------------------------------------------- more claims on build_url
\* No filter predicate equates the rowid column, under any spelling, to a
\* string: no identifier pushdown.
NoIdPushdown == \A i \in DOMAIN quals : ~IsStringIdQual(quals[i])

\* The text of a predicate's value when it is a string, a 32-bit or 64-bit
\* integer or a boolean.
RenderedValue(q) ==
    LET cell == q.value.cell IN
    IF cell.kind = "String" THEN cell.s
    ELSE IF cell.kind = "Bool" THEN (IF cell.b THEN <<"true">> ELSE <<"false">>)
    ELSE IntToString(cell.n)

\* The predicate has operator = and a string, integer or boolean value.
IsRenderedQual(q) ==
    /\ q.operator = "="
    /\ q.value.tag = "Cell"
    /\ q.value.cell.kind \in {"String", "I32", "I64", "Bool"}

\* name=value for each of the first n predicates that Kept accepts, in
\* predicate order.
RECURSIVE FilterParams(_, _)
FilterParams(Kept(_), n) ==
    IF n = 0 THEN << >>
    ELSE FilterParams(Kept, n - 1)
         \o (IF Kept(quals[n])
             THEN <<Str(quals[n].field) \o <<"=">> \o RenderedValue(quals[n])>>
             ELSE << >>)

\* The list URL: base_url + endpoint, then ? and the parameters joined by
\* &, the cursor first, the page size second, the predicates Kept accepts
\* after them.
ListUrl(Kept(_)) ==
    LET cursor == IF next_cursor = None THEN << >>
                  ELSE <<Str(cursor_param) \o <<"=">> \o Str(Unwrap(next_cursor))>>
        size == IF page_size > 0 /\ page_size_param # ""
                THEN <<Str(page_size_param) \o <<"=">> \o IntToString(page_size)>>
                ELSE << >>
        params == cursor \o size \o FilterParams(Kept, Len(quals))
    IN  base_url \o endpoint
        \o (IF params = << >> THEN << >> ELSE <<"?">> \o Join(params, "&"))

IsRenderedNotRowid(q) == IsRenderedQual(q) /\ q.field # rowid_col

\* C25, as stated: without identifier pushdown and without a captured
\* next_url, build_url returns base_url + endpoint and, if there is any
\* parameter, ? and the parameters joined by &: the cursor, the page size,
\* then name=value for every predicate with operator = and a string, i32,
\* i64 or boolean value, in predicate order.
C25_EveryEqualityPredicate ==
    (phase = "built" /\ NoIdPushdown /\ next_url = None) =>
        ret = ListUrl(IsRenderedQual)

\* C25, amended: the same, except that a predicate whose column name is
\* exactly the rowid column's contributes no parameter either.
C25_ListUrl ==
    (phase = "built" /\ NoIdPushdown /\ next_url = None) =>
        ret = ListUrl(IsRenderedNotRowid)

\* A list URL with the cursor, the page size, a rendered predicate and a
\* predicate on the rowid column that is left out.
C25_Witness ==
    /\ phase = "built"
    /\ NoIdPushdown
    /\ next_url = None
    /\ quals = <<Qual("id", "=", ValueCell(CellI64(5))),
                 Qual("name", "=", ValueCell(CellString(<<"bob">>)))>>
    /\ rowid_col = "id"
    /\ ret = <<"https://api.test", "/users", "?", "after", "=", "cur1", "&",
               "limit", "=", "1", "0", "0", "&", "name", "=", "bob">>

\* C26: in a list URL no parameter is rendered for a predicate on the rowid
\* column, whatever the case of the letters of the predicate's column name.
C26_NoRowidParameter ==
    (phase = "built" /\ NoIdPushdown /\ next_url = None) =>
        \A i \in 1..(Len(ret) - 1) :
            (ret[i + 1] = "=" /\ \E q \in Range(quals) : q.field = ret[i]) =>
                to_lowercase(SpellOf(ret[i])) # to_lowercase(SpellOf(rowid_col))

\* C27: with a captured next_url and no identifier pushdown, build_url
\* returns next_url and nothing else.
C27_NextUrlVerbatim ==
    (phase = "built" /\ NoIdPushdown /\ next_url # None) =>
        ret = <<Unwrap(next_url)>>

\* next_url is returned although a page size and a filter are at hand.
C27_Witness ==
    /\ phase = "built"
    /\ next_url = Some("url1")
    /\ page_size = 100
    /\ page_size_param = "limit"
    /\ quals = <<Qual("name", "=", ValueCell(CellString(<<"bob">>)))>>
    /\ ret = <<"url1">>

\* ------------------------------------------- more claims on the session
\* The scan's predicates equate the rowid column to a string: every
\* request of the scan goes to the single-resource URL.
IsPushdownScan == \E i \in DOMAIN quals : IsStringIdQual(quals[i])

\* C28: a scan with identifier pushdown sends one request, that of
\* begin_scan (or of re_scan): its iter_scan calls send none, whatever the
\* body of the single-resource response holds.
C28_PushdownFetchesOnce ==
    (IsPushdownScan /\ call.callback = "iter_scan") => call.requests = << >>

\* ================================================= the host's scans, watched
\* The most requests the scans of one session send.
MaxFetches == 3

\* The tables the host scans: one that sets the endpoint only and one that
\* sets every option.
HostTables == {t \in TableChoices : t.endpoint # None}

\* The pages the server answers with: two rows and a next link, one row
\* with has_more and a cursor, a last page.
HostPages ==
    {DataPage(<<Row("p1", 1), Row("p1", 2)>>, {<<<<"next">>, JStr("url2")>>}),
     DataPage(<<Row("p2", 3)>>,
              {<<<<"has_more">>, JBool(TRUE)>>, <<<<"next_cursor">>, JStr("cur3")>>}),
     DataPage(<<Row("p4", 5)>>, {})}

HostResponses ==
    {TransportError, Response(404, None)}
    \cup {Response(200, Some(b)) : b \in HostPages}

\* The rows of the page a request was answered with: those of the array
\* under "data" of a 200, none otherwise.
PageRows(resp) ==
    IF resp.status_code = 200 THEN Unwrap(resp.json).fields["data"].elems ELSE << >>

\* A callback returns to the host, which notes what it saw of the scan.
ReturnWatched(done, log) ==
    /\ SetSelf(done.self)
    /\ call' = done.call
    /\ prev_status' = call.status
    /\ scan_log' = log
    /\ UNCHANGED <<schemaVars, resp_json, extracted, quals, fnVars>>

\* The phase after a callback of a scan: an error ends the scan.
AfterScanCall(done) ==
    IF done.call.result = "Err" THEN "host_idle"
    ELSE IF done.call.result = "None" THEN "host_drained"
    ELSE "host_scanning"

InitHost ==
    /\ phase = "host_loaded"
    /\ SchemaIdle
    /\ NoResponse
    /\ next_cursor = None
    /\ next_url = None
    /\ base_url = << >>
    /\ endpoint = << >>
    /\ rowid_col = ""
    /\ object_path = None
    /\ cursor_param = ""
    /\ page_size = 0
    /\ page_size_param = ""
    /\ src_rows = << >>
    /\ src_idx = 0
    /\ quals \in ScanQuals
    /\ call = NoCall
    /\ prev_status = "none"
    /\ scan_log = NoScan
    /\ args \in {[server |-> o, columns |-> ScanColumns] : o \in ServerChoices}
    /\ ret = << >>

HostInit ==
    /\ phase = "host_loaded"
    /\ ReturnWatched(init(args.server), scan_log)
    /\ phase' = "host_idle"

\* The host begins the scan of a table.
HostBeginScan ==
    /\ phase = "host_idle"
    /\ scan_log.fetches < MaxFetches
    /\ \E table \in HostTables, resp \in HostResponses :
       \E done \in {begin_scan(Self, table, quals, resp)} :
           /\ ReturnWatched(done,
                  [table |-> Some(table),
                   first_url |-> Some(done.call.requests[1].url),
                   fetches |-> scan_log.fetches + 1,
                   fetched |-> PageRows(resp),
                   emitted |-> << >>])
           /\ phase' = AfterScanCall(done)

\* The host asks for the next row.
HostIterScan ==
    /\ phase \in {"host_scanning", "host_drained"}
    /\ \E resp \in HostResponses :
       \E done \in {iter_scan(Self, args.columns, quals, resp)} :
           /\ scan_log.fetches + Len(done.call.requests) <= MaxFetches
           /\ done.call.requests = << >> => resp = TransportError
           /\ ReturnWatched(done,
                  [scan_log EXCEPT
                      !.fetches = @ + Len(done.call.requests),
                      !.fetched = IF done.call.requests # << >>
                                  THEN @ \o PageRows(resp) ELSE @,
                      !.emitted = IF done.call.result = "Some"
                                  THEN Append(@, done.call.row) ELSE @])
           /\ phase' = AfterScanCall(done)

\* The host restarts the scan.
HostReScan ==
    /\ phase \in {"host_scanning", "host_drained"}
    /\ scan_log.fetches < MaxFetches
    /\ \E resp \in HostResponses :
       \E done \in {re_scan(Self, quals, resp)} :
           /\ ReturnWatched(done,
                  [scan_log EXCEPT !.fetches = @ + 1,
                                   !.fetched = PageRows(resp),
                                   !.emitted = << >>])
           /\ phase' = AfterScanCall(done)

\* The host ends the scan.
HostEndScan ==
    /\ phase \in {"host_scanning", "host_drained"}
    /\ ReturnWatched(end_scan(Self), scan_log)
    /\ phase' = "host_idle"

NextHost == HostInit \/ HostBeginScan \/ HostIterScan \/ HostReScan \/ HostEndScan

SpecHost == InitHost /\ [][NextHost]_vars

\* ------------------------------------------------- claims on watched scans
\* The cells of a row of a page under the columns id and src.
CellsOf(row) ==
    <<Some(CellI64(row.fields["id"].n)), Some(CellString(<<row.fields["src"].s>>))>>

\* C24: over a scan with no error, the rows handed to the host are the
\* rows of the fetched pages, in fetch order and in array order, each one
\* once: at every moment all but the rows still buffered, at end-of-data
\* all of them.
C24_RowsInFetchOrder ==
    phase \in {"host_scanning", "host_drained"} =>
        /\ Len(scan_log.emitted) + (Len(src_rows) - src_idx) = Len(scan_log.fetched)
        /\ \A i \in DOMAIN scan_log.emitted :
               scan_log.emitted[i] = CellsOf(scan_log.fetched[i])
        /\ phase = "host_drained" => Len(scan_log.emitted) = Len(scan_log.fetched)

\* A scan of three pages has handed over their four rows and ended.
C24_Witness ==
    /\ phase = "host_drained"
    /\ call.callback = "iter_scan"
    /\ scan_log.fetches = 3
    /\ scan_log.emitted =
           <<CellsOf(Row("p1", 1)), CellsOf(Row("p1", 2)), CellsOf(Row("p2", 3)),
             CellsOf(Row("p4", 5))>>

\* C29: re_scan, wherever the scan stands, requests the URL begin_scan
\* requested; when it fails next_cursor and next_url are absent; when it
\* succeeds the buffer holds the page received and the read cursor is 0.
C29_ReScanFromFirstPage ==
    call.callback = "re_scan" =>
        /\ call.requests = <<Request("GET", Unwrap(scan_log.first_url))>>
        /\ call.result = "Err" => (next_cursor = None /\ next_url = None)
        /\ call.result = "Ok" =>
               /\ src_rows = scan_log.fetched
               /\ src_idx = 0
               /\ scan_log.emitted = << >>

\* A scan that had gone on to its second page is restarted.
C29_Witness ==
    /\ call.callback = "re_scan"
    /\ call.result = "Ok"
    /\ prev_status = "2xx"
    /\ scan_log.fetches = 3
    /\ src_rows = <<Row("p1", 1), Row("p1", 2)>>
    /\ src_idx = 0

\* C30: after each begin_scan the page size, the page-size parameter and
\* the cursor parameter are the table's option where the table sets it and
\* the value init left otherwise, whatever the scans before it set.
C30_OptionsOfThisScan ==
    call.callback = "begin_scan" =>
        LET table == Unwrap(scan_log.table)
            server == init(args.server).self
        IN  /\ cursor_param = require_or(table.cursor_param, server.cursor_param)
            /\ page_size_param = require_or(table.page_size_param, server.page_size_param)
            /\ page_size = IF table.page_size = None THEN server.page_size
                           ELSE Unwrap(ParseUsize(Unwrap(table.page_size)))

\* ------------------------------------------- claims on the page buffer
\* C32: in every state a scan reaches, a page fetch that fails, whatever
\* the failure (transport error, status outside 2xx other than 404, body
\* that is not JSON, response_path not found, data neither array nor
\* object), leaves src_rows, src_idx, next_cursor and next_url as they
\* were when the request was sent.
C32_FailedFetchKeepsState ==
    phase = "session" =>
        \A resp \in Responses :
            \A fetch \in {make_request(Self, quals, resp)} :
                ~fetch.ok =>
                    /\ fetch.requests # << >>
                    /\ fetch.self.src_rows = src_rows
                    /\ fetch.self.src_idx = src_idx
                    /\ fetch.self.next_cursor = next_cursor
                    /\ fetch.self.next_url = next_url

\* The fetch of the second page failed: the first page, consumed, is still
\* buffered and its next link still held.
C32_Witness ==
    /\ call.callback = "iter_scan"
    /\ call.result = "Err"
    /\ call.status = "error_status"
    /\ call.requests = <<Request("GET", <<"url2">>)>>
    /\ src_rows = <<Row("p1", 1), Row("p1", 2)>>
    /\ src_idx = 2
    /\ next_url = Some("url2")

\* C33: whatever callbacks of a scan ran and whatever the server answered,
\* src_idx is at most the number of buffered rows; after end_scan the
\* buffer is empty and src_idx is 0.
C33_CursorWithinBuffer ==
    /\ src_idx <= Len(src_rows)
    /\ call.callback = "end_scan" => (src_rows = << >> /\ src_idx = 0)

\* The page of one row that followed a page of two rows has been read to
\* its end.
C33_Witness ==
    /\ call.callback = "iter_scan"
    /\ call.result = "Some"
    /\ call.requests = <<Request("GET", <<"url2">>)>>
    /\ src_rows = <<Row("p2", 3)>>
    /\ src_idx = 1

\* ------------------------------------------------------ claims on retry
\* C31: begin_scan, iter_scan, re_scan, insert, update, delete and
\* import_foreign_schema send at most one request each time they are
\* called; a request that meets a transport error or a status that is an
\* error makes the callback fail, with that one request sent.
C31_NoRetry ==
    /\ Len(call.requests) <= 1
    /\ call.status \in {"transport", "error_status"} =>
           (call.result = "Err" /\ Len(call.requests) = 1)

\* The spec URL answered 500: import_foreign_schema failed after its one
\* request and holds no spec.
C31_Witness ==
    /\ call.callback = "import_foreign_schema"
    /\ call.result = "Err"
    /\ call.status = "error_status"
    /\ call.requests = <<Request("GET", <<"https://spec.test", "/openapi.json">>)>>
    /\ spec = None

====
